---------------------------- MODULE Spec2Model ----------------------------
(***************************************************************************)
(* A state-machine model of the RAG query pipeline of the GitLab chatbot   *)
(* backend: RAGService (retrieval cache, conversation store, the query     *)
(* orchestration with its suspension points), LLMService (query rewriting, *)
(* prompt history window, sources of a response, confidence assessment)    *)
(* and TextProcessor (query normalisation, keyword extraction).            *)
(*                                                                         *)
(* Text is modelled as a sequence of one-character strings.  Scores are    *)
(* integers in thousandths (0.7 is 700).  Time is in seconds.              *)
(***************************************************************************)
EXTENDS Integers, Sequences, FiniteSets, TLC

(***************************************************************************)
(* Program constants                                                       *)
(***************************************************************************)
\* rag.js:185  "if (history.length > 10)"
MaxHistory == 10
\* llm.js:103  ".slice(-3)"
PromptWindow == 3
\* config/index.js:48  topK: 5
TopK == 5
\* config/index.js:49  similarityThreshold: 0.7, in thousandths
SimilarityThreshold == 700
\* config/index.js:41  cache ttl, seconds
StdTTL == 3600
\* rag.js:75  boostScore += 0.1, in thousandths
TitleBoost == 100
\* rag.js:83  boostScore += 0.05, in thousandths
RecencyBoost == 50
\* rag.js:82  daysSince < 30, in seconds (30 * 86400)
RecentSeconds == 2592000
\* llm.js:257  line.length > 5
MinLineLen == 5
\* llm.js:257  line.length < 200
MaxLineLen == 200
\* llm.js:258  .slice(0, 3)
MaxRewrites == 3
QueryMaxLen == 1000
SessionIdMaxLen == 100
\* the defaults of the options of retryWithBackoff
initialDelay == 1000
maxDelay == 30000
factor == 2
\* part_013:138  this.maxPages = 500
maxPages == 500
\* part_002:27  this.maxCacheSize = 20
maxCacheSize == 20
\* part_002:29  this.maxMessagePerSession = 10
maxMessagePerSession == 10

(***************************************************************************)
(* Bounds of the model                                                     *)
(***************************************************************************)
\* requests issued in the pipeline specification
MaxReq == 2
\* requests issued in the single-session specification
MaxReqSess == 7
\* requests issued in the conversation-memory specification
MaxReqMem == 2
\* requests issued in the caller-timeout specification
MaxReqAbandon == 3
\* requests issued in the single-task pipeline specification
MaxReqPipe == 1
\* direct appends to one session between two clears
MaxAppends == 12
\* length of the filler of the long answers
LongAnswerLen == 400
\* the clock stops advancing here
MaxTime == 3601
MaxReqCache == 2
MaxReqClear == 4
MaxReqApi == 2
MaxCacheTime == 3602
\* conversation files present when the store is constructed, and calls of
\* get, set, delete and auto-save followed
StoredAtStart == 20
MaxConvOps == 4
\* the time a call of conditionFn takes at most, milliseconds
MaxDuration == 4
\* number of URLs of the site that is crawled
WebSize == 502
\* largest maxRetries given to retryWithBackoff
MaxRetriesTried == 6
\* feedback submissions followed, named by the id of their entry
MaxFeedback == 3
FeedbackIds == 1..MaxFeedback
\* one clock step
TickStep == 3601

\* The asynchronous tasks that can be in flight at once.
Slots == {"p1", "p2"}
\* a new request takes the first task that is free
SlotRank(p) == IF p = "p1" THEN 1 ELSE 2
\* null / undefined / "" : every falsy sessionId
NoSession == "none"
SessionIds == {"s1", "s2"}

(***************************************************************************)
(* Text helpers                                                            *)
(***************************************************************************)
IsSpace(c) == c \in {" ", "\t", "\n"}

\* String.prototype.toLowerCase on one character of the model's alphabet
LowerChar(c) ==
  CASE c = "A" -> "a" [] c = "B" -> "b" [] c = "C" -> "c" [] c = "D" -> "d"
    [] c = "E" -> "e" [] c = "F" -> "f" [] c = "G" -> "g" [] c = "H" -> "h"
    [] c = "I" -> "i" [] c = "J" -> "j" [] c = "K" -> "k" [] c = "L" -> "l"
    [] c = "M" -> "m" [] c = "N" -> "n" [] c = "O" -> "o" [] c = "P" -> "p"
    [] c = "Q" -> "q" [] c = "R" -> "r" [] c = "S" -> "s" [] c = "T" -> "t"
    [] c = "U" -> "u" [] c = "V" -> "v" [] c = "W" -> "w" [] c = "X" -> "x"
    [] c = "Y" -> "y" [] c = "Z" -> "z" [] OTHER -> c

ToLowerCase(s) == [i \in 1..Len(s) |-> LowerChar(s[i])]

RECURSIVE TrimStart(_)
TrimStart(s) ==
  IF s # <<>> /\ IsSpace(Head(s)) THEN TrimStart(Tail(s)) ELSE s

RECURSIVE TrimEnd(_)
TrimEnd(s) ==
  IF s # <<>> /\ IsSpace(s[Len(s)]) THEN TrimEnd(SubSeq(s, 1, Len(s) - 1)) ELSE s

Trim(s) == TrimEnd(TrimStart(s))

\* replace(/\s+/g, ' '): every maximal run of whitespace becomes one space
RECURSIVE CollapseSpaces(_)
CollapseSpaces(s) ==
  IF s = <<>> THEN <<>>
  ELSE IF IsSpace(Head(s))
       THEN <<" ">> \o CollapseSpaces(TrimStart(s))
       ELSE <<Head(s)>> \o CollapseSpaces(Tail(s))

\* TextProcessor.normalizeQuery
NormalizeQuery(query) == ToLowerCase(CollapseSpaces(Trim(query)))

\* \w of a JavaScript regular expression
IsWordChar(c) ==
  LowerChar(c) \in {"a","b","c","d","e","f","g","h","i","j","k","l","m","n","o",
                    "p","q","r","s","t","u","v","w","x","y","z","0","1","2","3",
                    "4","5","6","7","8","9","_"}

\* split(/\s+/): the pieces between maximal runs of whitespace
RECURSIVE SplitSpaces(_, _)
SplitSpaces(s, cur) ==
  IF s = <<>> THEN <<cur>>
  ELSE IF IsSpace(Head(s))
       THEN <<cur>> \o SplitSpaces(TrimStart(s), <<>>)
       ELSE SplitSpaces(Tail(s), Append(cur, Head(s)))

\* [...new Set(words)]: first occurrences, in order
RECURSIVE Distinct(_)
Distinct(ws) ==
  IF ws = <<>> THEN <<>>
  ELSE LET init == Distinct(SubSeq(ws, 1, Len(ws) - 1))
           last == ws[Len(ws)]
       IN IF \E i \in 1..Len(init) : init[i] = last THEN init ELSE Append(init, last)

Stopwords ==
  { <<"a">>, <<"a","n">>, <<"a","n","d">>, <<"a","r","e">>, <<"a","s">>, <<"a","t">>,
    <<"b","e">>, <<"b","y">>, <<"f","o","r">>, <<"f","r","o","m">>, <<"h","a","s">>,
    <<"h","e">>, <<"i","n">>, <<"i","s">>, <<"i","t">>, <<"i","t","s">>, <<"o","f">>,
    <<"o","n">>, <<"t","h","a","t">>, <<"t","h","e">>, <<"t","o">>, <<"w","a","s">>,
    <<"w","i","l","l">>, <<"w","i","t","h">>, <<"w","h","a","t">>, <<"w","h","e","n">>,
    <<"w","h","e","r","e">>, <<"w","h","o">>, <<"h","o","w">> }

IsKeyword(w) == Len(w) > 2 /\ w \notin Stopwords

\* TextProcessor.extractKeywords
ExtractKeywords(query) ==
  LET stripped == SelectSeq(ToLowerCase(query), LAMBDA c : IsWordChar(c) \/ IsSpace(c))
      words == SelectSeq(SplitSpaces(stripped, <<>>), IsKeyword)
  IN Distinct(words)

\* String.prototype.includes
Includes(s, sub) ==
  \E i \in 0..(Len(s) - Len(sub)) : SubSeq(s, i + 1, i + Len(sub)) = sub


(***************************************************************************)
(* Model data: raw queries, passages of the index, backend outputs         *)
(***************************************************************************)
\* Raw query texts a caller may send; both normalise to "hire me".
RawQueries ==
  { <<"H","i","r","e"," "," ","m","e">>,
    <<" ","h","i","r","e"," ","m","e">> }

\* a missing (undefined / null) similarity score
NullScore == -1

\* Passages as VectorStore.search formats them (text omitted: never inspected here).
PHire    == [id |-> "c1", score |-> 900, title |-> <<"H","i","r","e">>, scrapedAt |-> 0]
PHireB   == [id |-> "c1", score |-> 800, title |-> <<"H","i","r","e">>, scrapedAt |-> 0]
PPay     == [id |-> "c2", score |-> 750, title |-> <<"P","a","y">>, scrapedAt |-> TickStep - RecentSeconds]
PLow     == [id |-> "c3", score |-> 600, title |-> <<"P","a","y">>, scrapedAt |-> 0]
PNoScore == [id |-> "c4", score |-> NullScore, title |-> <<"O","p","s">>, scrapedAt |-> 0]

\* What the vector index may answer to one search.
SearchResults == { <<PHire, PLow, PPay>>, <<PNoScore, PHireB>> }

\* Texts the generative backend may return to a rewrite prompt, as lines.
RewriteOutputs ==
  { << <<"-"," ","H","i","r","i","n","g"," ">>, <<"o","k">>, <<"*","p","a","y","r","o","l","l">> >>,
    << <<"n","o">> >> }

\* More passages, for the single-task pipeline specification.
PZero    == [id |-> "c5", score |-> 0, title |-> <<"O","p","s">>, scrapedAt |-> 0]
PBoth    == [id |-> "c6", score |-> 700, title |-> <<"H","i","r","e"," ","P","a","y">>, scrapedAt |-> 0]
PSeven   == [id |-> "c7", score |-> 710, title |-> <<"O","p","s">>, scrapedAt |-> 0]
PEight   == [id |-> "c8", score |-> 720, title |-> <<"O","p","s">>, scrapedAt |-> 0]

\* What the vector index may answer to one search there: at most topK
\* matches, one match below the threshold only, or none (also the answer of
\* an index that is not initialised).
PipeResults ==
  { <<PHire, PLow, PPay, PZero>>,
    <<PNoScore, PHireB, PBoth>>,
    <<PBoth, PSeven, PEight, PPay, PNoScore>>,
    <<PLow>>,
    <<>> }

\* Raw query texts of the single-task pipeline specification.
PipeQueries ==
  { <<"H","i","r","e"," "," ","m","e">>,
    <<"h","i","r","e"," ","p","a","y","?">> }

\* a line of 200 characters
LongLine == [i \in 1..MaxLineLen |-> "x"]

\* Texts the generative backend may return to a rewrite prompt there: four
\* usable lines; two usable lines among others; no usable line; the empty text.
PipeRewrites ==
  { << <<"-"," ","h","i","r","e"," ","p","a","y">>, <<"h","i","r","i","n","g">>,
       <<"*"," ","p","a","y","r","o","l","l">>, <<"s","a","l","a","r","y">> >>,
    << <<"-"," ","H","i","r","i","n","g"," ">>, <<"o","k">>, <<"*","p","a","y","r","o","l","l">> >>,
    << <<"h","e","l","l","o">>, LongLine, <<"-"," "," ">> >>,
    << <<>> >> }

\* Answers the generative backend may return to a generation prompt.
Answers == { <<"o","k">> }

(***************************************************************************)
(* Maps with a dynamic key set (JavaScript Map, node-cache data)           *)
(***************************************************************************)
MapSet(m, k, v) == [x \in DOMAIN m \cup {k} |-> IF x = k THEN v ELSE m[x]]
MapDelete(m, k) == [x \in DOMAIN m \ {k} |-> m[x]]
EmptyMap == [x \in {} |-> 0]

Min(a, b) == IF a < b THEN a ELSE b

\* the last n elements of s (Array.prototype.slice(-n))
LastN(s, n) == SubSeq(s, Len(s) - Min(n, Len(s)) + 1, Len(s))

(***************************************************************************)
(* Conversation memory: RAGService.conversationStore                       *)
(***************************************************************************)
\* RAGService.getConversationHistory
GetConversationHistory(st, sessionId) ==
  IF sessionId = NoSession THEN <<>>
  ELSE IF sessionId \in DOMAIN st THEN st[sessionId] ELSE <<>>

\* addToConversationHistory with the cap checked before the push
AddToConversationHistory_LazyCap(st, sessionId, message) ==
  IF sessionId = NoSession THEN st
  ELSE LET old == GetConversationHistory(st, sessionId)
           kept == IF Len(old) > MaxHistory THEN Tail(old) ELSE old
       IN MapSet(st, sessionId, Append(kept, message))

\* addToConversationHistory evicting with pop() instead of shift()
AddToConversationHistory_DropNewest(st, sessionId, message) ==
  IF sessionId = NoSession THEN st
  ELSE LET pushed == Append(GetConversationHistory(st, sessionId), message)
           history == IF Len(pushed) > MaxHistory
                      THEN SubSeq(pushed, 1, Len(pushed) - 1) ELSE pushed
       IN MapSet(st, sessionId, history)

\* addToConversationHistory without the "if (!sessionId) return" guard
AddToConversationHistory_NoGuard(st, sessionId, message) ==
  LET old == IF sessionId \in DOMAIN st THEN st[sessionId] ELSE <<>>
      pushed == Append(old, message)
      history == IF Len(pushed) > MaxHistory THEN Tail(pushed) ELSE pushed
  IN MapSet(st, sessionId, history)

\* RAGService.addToConversationHistory; the result is the store afterwards
\* addToConversationHistory on a store that keeps one session at a time
AddToConversationHistory_SingleSession(st, sessionId, message) ==
  IF sessionId = NoSession THEN st
  ELSE LET pushed == Append(GetConversationHistory(st, sessionId), message)
           history == IF Len(pushed) > MaxHistory THEN Tail(pushed) ELSE pushed
       IN MapSet(EmptyMap, sessionId, history)

AddToConversationHistory(st, sessionId, message) ==
  IF sessionId = NoSession THEN st
  ELSE LET pushed == Append(GetConversationHistory(st, sessionId), message)
           history == IF Len(pushed) > MaxHistory THEN Tail(pushed) ELSE pushed
       IN MapSet(st, sessionId, history)

\* clearConversationHistory emptying the whole map
ClearConversationHistory_All(st, sessionId) == EmptyMap

\* RAGService.clearConversationHistory
ClearConversationHistory(st, sessionId) == MapDelete(st, sessionId)

(***************************************************************************)
(* Retrieval cache: node-cache with stdTTL                                 *)
(***************************************************************************)
\* RAGService.getCacheKey
GetCacheKey(query, sessionId) ==
  IF sessionId = NoSession THEN NormalizeQuery(query)
  ELSE <<sessionId, ":">> \o NormalizeQuery(query)

\* cache.get returning an entry however old it is
CacheLive_Forever(c, key, t) == key \in DOMAIN c

\* retrieveContext taking a cached empty list for a miss
CacheLive_NonEmpty(c, key, t) == key \in DOMAIN c /\ ~(c[key].t < t) /\ c[key].v # <<>>

\* an entry is live until its expiry time has passed
CacheLive(c, key, t) == key \in DOMAIN c /\ ~(c[key].t < t)

\* cache.get: an expired entry is removed by the read that finds it
CacheAfterGet(c, key, t) ==
  IF key \in DOMAIN c /\ c[key].t < t THEN MapDelete(c, key) ELSE c

\* cache.set
CacheSet(c, key, value, t) == MapSet(c, key, [v |-> value, t |-> t + StdTTL])

(***************************************************************************)
(* Retrieval post-processing                                               *)
(***************************************************************************)
\* retrieveContext: !result.score || result.score >= threshold
PassesThreshold(r) ==
  \/ r.score = NullScore
  \/ r.score # NullScore /\ (r.score = 0 \/ r.score >= SimilarityThreshold)

FilterResults(results) == SelectSeq(results, PassesThreshold)

\* deduplication keeping the first occurrence of an id
RECURSIVE UniqueResults_FirstWins(_)
UniqueResults_FirstWins(rs) ==
  IF rs = <<>> THEN <<>>
  ELSE <<Head(rs)>> \o
       UniqueResults_FirstWins(SelectSeq(Tail(rs), LAMBDA r : r.id # Head(rs).id))

\* new Map(allResults.map(r => [r.id, r])).values(): the position of the
\* first occurrence of an id, the value of its last occurrence
RECURSIVE UniqueResults(_)
UniqueResults(rs) ==
  IF rs = <<>> THEN <<>>
  ELSE LET h == Head(rs)
           same == SelectSeq(rs, LAMBDA r : r.id = h.id)
           rest == SelectSeq(Tail(rs), LAMBDA r : r.id # h.id)
       IN <<same[Len(same)]>> \o UniqueResults(rest)

\* rerankResults boosting once however many keywords match the title
FinalScore_Capped(r, keywords, t) ==
  LET matched == \E i \in 1..Len(keywords) : Includes(ToLowerCase(r.title), keywords[i])
      recency == IF t - r.scrapedAt < RecentSeconds THEN RecencyBoost ELSE 0
      base == IF r.score = NullScore THEN 0 ELSE r.score
  IN base + (IF matched THEN TitleBoost ELSE 0) + recency

\* rerankResults: the score of one result
FinalScore(r, keywords, t) ==
  LET matches == Cardinality({i \in 1..Len(keywords) :
                                Includes(ToLowerCase(r.title), keywords[i])})
      recency == IF t - r.scrapedAt < RecentSeconds THEN RecencyBoost ELSE 0
      base == IF r.score = NullScore THEN 0 ELSE r.score
  IN base + TitleBoost * matches + recency

\* sort with the comparator (a, b) => a.finalScore - b.finalScore
RECURSIVE InsertSorted_Ascending(_, _)
InsertSorted_Ascending(sorted, r) ==
  IF sorted = <<>> THEN <<r>>
  ELSE IF Head(sorted).finalScore <= r.finalScore
       THEN <<Head(sorted)>> \o InsertSorted_Ascending(Tail(sorted), r)
       ELSE <<r>> \o sorted

\* Array.prototype.sort((a, b) => b.finalScore - a.finalScore): stable, descending
RECURSIVE InsertSorted(_, _)
InsertSorted(sorted, r) ==
  IF sorted = <<>> THEN <<r>>
  ELSE IF Head(sorted).finalScore >= r.finalScore
       THEN <<Head(sorted)>> \o InsertSorted(Tail(sorted), r)
       ELSE <<r>> \o sorted

RECURSIVE SortByFinalScore(_)
SortByFinalScore(rs) ==
  IF rs = <<>> THEN <<>>
  ELSE InsertSorted(SortByFinalScore(SubSeq(rs, 1, Len(rs) - 1)), rs[Len(rs)])

\* RAGService.rerankResults
RerankResults(results, query, t) ==
  LET keywords == ExtractKeywords(query)
      scored == [i \in 1..Len(results) |->
                   [id |-> results[i].id, score |-> results[i].score,
                    title |-> results[i].title, scrapedAt |-> results[i].scrapedAt,
                    finalScore |-> FinalScore(results[i], keywords, t)]]
  IN SortByFinalScore(scored)

\* query handing every reranked result on
TopResults_NoSlice(reranked) == reranked

\* slice(0, topK)
TopResults(reranked) == SubSeq(reranked, 1, Min(TopK, Len(reranked)))

(***************************************************************************)
(* Query rewriting: LLMService.rewriteQuery / expandQuery                  *)
(***************************************************************************)
\* line.replace(/^[-•*]\s*/, '').trim()
StripBullet(line) ==
  Trim(IF line # <<>> /\ Head(line) \in {"-", "*"} THEN TrimStart(Tail(line)) ELSE line)

UsableLine(line) == Len(line) > MinLineLen /\ Len(line) < MaxLineLen

\* rewriteQuery without the slice(0, 3)
RewriteQuery_NoCap(userQuery, lines) ==
  LET cleaned == [i \in 1..Len(lines) |-> StripBullet(lines[i])]
      usable == SelectSeq(cleaned, UsableLine)
  IN IF Len(usable) = 0 THEN <<userQuery>> ELSE usable

\* the value of rewriteQuery when the backend answered with these lines
RewriteQuery(userQuery, lines) ==
  LET cleaned == [i \in 1..Len(lines) |-> StripBullet(lines[i])]
      usable == SelectSeq(cleaned, UsableLine)
      rewritten == SubSeq(usable, 1, Min(MaxRewrites, Len(usable)))
  IN IF Len(rewritten) = 0 THEN <<userQuery>> ELSE rewritten

\* the value of rewriteQuery when the backend call threw
RewriteQueryFailed(userQuery) == <<userQuery>>


(***************************************************************************)
(* Confidence assessment: LLMService.buildContext, assessConfidence,       *)
(* verifyClaimsInContext                                                   *)
(***************************************************************************)
\* the first line of a non-empty context
ContextHeader ==
  <<"H","e","r","e"," ","i","s"," ","r","e","l","e","v","a","n","t"," ","i",
    "n","f","o","r","m","a","t","i","o","n"," ","f","r","o","m"," ","G","i",
    "t","L","a","b","'","s"," ","H","a","n","d","b","o","o","k"," ","a","n",
    "d"," ","D","i","r","e","c","t","i","o","n"," ","p","a","g","e","s",":",
    "\n","\n">>

\* the decimal digit of a source number 1..9
DigitChar(n) == <<"0","1","2","3","4","5","6","7","8","9">>[n + 1]

IsDigit(c) == c \in {"0","1","2","3","4","5","6","7","8","9"}

\* the block of one chunk: "[Source n: title]\ntext\n\n"
ChunkBlock(chunk, n) ==
  <<"[","S","o","u","r","c","e"," ">> \o <<DigitChar(n)>> \o <<":"," ">>
    \o chunk.title \o <<"]","\n">> \o chunk.text \o <<"\n","\n">>

RECURSIVE ChunkBlocks(_, _)
ChunkBlocks(chunks, n) ==
  IF n > Len(chunks) THEN <<>>
  ELSE ChunkBlock(chunks[n], n) \o ChunkBlocks(chunks, n + 1)

\* LLMService.buildContext
BuildContext(retrievedChunks) ==
  IF Len(retrievedChunks) = 0 THEN <<>>
  ELSE ContextHeader \o ChunkBlocks(retrievedChunks, 1)

\* the phrases that mark an answer as uncertain
UncertaintyPhrases ==
  << <<"i"," ","d","o","n","'","t"," ","k","n","o","w">>,
     <<"i","'","m"," ","n","o","t"," ","s","u","r","e">>,
     <<"i"," ","c","a","n","n","o","t"," ","f","i","n","d">>,
     <<"n","o","t"," ","m","e","n","t","i","o","n","e","d">>,
     <<"d","o","e","s","n","'","t"," ","c","o","n","t","a","i","n">>,
     <<"n","o"," ","i","n","f","o","r","m","a","t","i","o","n"," ","a","b","o","u","t">>,
     <<"i"," ","d","o","n","'","t"," ","h","a","v","e"," ","i","n","f","o","r","m","a","t","i","o","n">> >>

\* uncertaintyPhrases.some(phrase => lowerResponse.includes(phrase))
HasUncertainty(lowerResponse) ==
  \E i \in 1..Len(UncertaintyPhrases) : Includes(lowerResponse, UncertaintyPhrases[i])

\* /\[source \d+\]/i.test(lowerResponse)
HasSourceCitation(lowerResponse) ==
  \E a \in 9..Len(lowerResponse) : \E b \in a..(Len(lowerResponse) - 1) :
    /\ [k \in 1..8 |-> LowerChar(lowerResponse[a - 9 + k])] = <<"[","s","o","u","r","c","e"," ">>
    /\ \A k \in a..b : IsDigit(lowerResponse[k])
    /\ lowerResponse[b + 1] = "]"

\* /".*?"/i.test(response): two double quotes on one line
HasQuotedSpan(response) ==
  \E i, j \in 1..Len(response) :
    /\ i < j
    /\ response[i] = "\"" /\ response[j] = "\""
    /\ \A k \in (i + 1)..(j - 1) : response[k] \notin {"\n", "\r"}

\* split(/[.!?]/): the pieces between the sentence marks, one more than marks
SplitSentences(s) ==
  LET marks == {i \in 1..Len(s) : s[i] \in {".", "!", "?"}}
      \* the k-th mark from the left; 0 before the first, Len(s) + 1 after the last
      Mark(k) == IF k = 0 THEN 0
                 ELSE IF k > Cardinality(marks) THEN Len(s) + 1
                 ELSE CHOOSE m \in marks : Cardinality({j \in marks : j <= m}) = k
  IN [k \in 1..(Cardinality(marks) + 1) |-> SubSeq(s, Mark(k - 1) + 1, Mark(k) - 1)]

\* split(/\s+/) without the empty pieces: the maximal runs of non-space characters
WordsOf(s) ==
  LET starts == {i \in 1..Len(s) : ~IsSpace(s[i]) /\ (i = 1 \/ IsSpace(s[i - 1]))}
      NthStart(k) == CHOOSE m \in starts : Cardinality({j \in starts : j <= m}) = k
      RunEnd(i) == CHOOSE e \in i..Len(s) :
                  /\ \A j \in i..e : ~IsSpace(s[j])
                  /\ (e = Len(s) \/ IsSpace(s[e + 1]))
  IN [k \in 1..Cardinality(starts) |-> SubSeq(s, NthStart(k), RunEnd(NthStart(k)))]

\* the words verifyClaimsInContext never counts
CommonWords ==
  { <<"t","h","i","s">>, <<"t","h","a","t">>, <<"w","i","t","h">>,
    <<"f","r","o","m">>, <<"h","a","v","e">>, <<"b","e","e","n">> }

\* the words of a sentence that are looked up in the context
MeaningfulWords(sentence) ==
  SelectSeq(WordsOf(ToLowerCase(sentence)),
            LAMBDA w : Len(w) > 3 /\ w \notin CommonWords)

\* a sentence more than half of whose meaningful words occur in the context
SentenceVerified(sentence, contextLower) ==
  LET words == MeaningfulWords(sentence)
      matchingWords == SelectSeq(words, LAMBDA w : Includes(contextLower, w))
  IN Len(words) > 0 /\ 2 * Len(matchingWords) > Len(words)

\* LLMService.verifyClaimsInContext: the score as the fraction verified / total
\* (1 / 1 when the response has no sentence of more than 20 characters)
VerifyClaimsInContext(response, context) ==
  LET sentences == SelectSeq(SplitSentences(response), LAMBDA x : Len(Trim(x)) > 20)
      contextLower == ToLowerCase(context)
      verified == SelectSeq(sentences, LAMBDA x : SentenceVerified(x, contextLower))
  IN IF Len(sentences) = 0 THEN [verified |-> 1, total |-> 1]
     ELSE [verified |-> Len(verified), total |-> Len(sentences)]

\* assessConfidence without the rule on the length of the answer
AssessGrounding_NoLengthRule(response, context) ==
  LET lowerResponse == ToLowerCase(response)
      hasCitations == HasSourceCitation(lowerResponse) \/ HasQuotedSpan(response)
      score == VerifyClaimsInContext(response, context)
  IN IF ~hasCitations /\ Len(context) > 0 THEN "medium"
     ELSE IF 2 * score.verified < score.total THEN "low"
     ELSE IF 5 * score.verified < 4 * score.total THEN "medium"
     ELSE "high"

\* assessConfidence with the comparisons score <= 0.5 and score <= 0.8
AssessGrounding_Inclusive(response, context) ==
  LET lowerResponse == ToLowerCase(response)
      hasCitations == HasSourceCitation(lowerResponse) \/ HasQuotedSpan(response)
      score == VerifyClaimsInContext(response, context)
  IN IF 2 * Len(response) > 3 * Len(context) THEN "medium"
     ELSE IF ~hasCitations /\ Len(context) > 0 THEN "medium"
     ELSE IF 2 * score.verified <= score.total THEN "low"
     ELSE IF 5 * score.verified <= 4 * score.total THEN "medium"
     ELSE "high"

\* the rules of assessConfidence that come after the uncertainty check
AssessGrounding(response, context) ==
  LET lowerResponse == ToLowerCase(response)
      hasCitations == HasSourceCitation(lowerResponse) \/ HasQuotedSpan(response)
      score == VerifyClaimsInContext(response, context)
  IN IF 2 * Len(response) > 3 * Len(context) THEN "medium"
     ELSE IF ~hasCitations /\ Len(context) > 0 THEN "medium"
     ELSE IF 2 * score.verified < score.total THEN "low"
     ELSE IF 5 * score.verified < 4 * score.total THEN "medium"
     ELSE "high"

\* assessConfidence looking for the phrases in the response as written
AssessConfidence_CaseSensitive(response, context) ==
  IF HasUncertainty(response) THEN "low" ELSE AssessGrounding(response, context)

\* assessConfidence checking the length of the answer first
AssessConfidence_LengthFirst(response, context) ==
  IF 2 * Len(response) > 3 * Len(context) THEN "medium"
  ELSE IF HasUncertainty(ToLowerCase(response)) THEN "low"
  ELSE AssessGrounding(response, context)

\* LLMService.assessConfidence
AssessConfidence(response, context) ==
  IF HasUncertainty(ToLowerCase(response)) THEN "low"
  ELSE AssessGrounding(response, context)


(***************************************************************************)
(* assessConfidence on its own: answers and contexts                       *)
(***************************************************************************)
ADontKnow ==
  <<"I"," ","d","o","n","'","t"," ","k","n","o","w",".">>
AShout ==
  <<"S","o","r","r","y",","," ","I"," ","D","O","N","'","T"," ","K","N","O",
    "W"," ","a","b","o","u","t"," ","t","h","a","t"," ","t","o","p","i","c",
    ".">>
ACitedUnsure ==
  <<"A","c","c","o","r","d","i","n","g"," ","t","o"," ","[","S","o","u","r",
    "c","e"," ","1","]"," ","w","e"," ","h","i","r","e"," ","r","e","m","o",
    "t","e","l","y"," ","a","n","d"," ","v","a","l","u","e"," ","r","e","s",
    "u","l","t","s",","," ","b","u","t"," ","I","'","m"," ","N","o","t"," ",
    "S","u","r","e",".">>
ACited ==
  <<"A","c","c","o","r","d","i","n","g"," ","t","o"," ","[","S","o","u","r",
    "c","e"," ","1","]"," ","w","e"," ","h","i","r","e"," ","r","e","m","o",
    "t","e","l","y"," ","a","n","d"," ","v","a","l","u","e"," ","r","e","s",
    "u","l","t","s",".">>
APlain ==
  <<"W","e"," ","h","i","r","e"," ","r","e","m","o","t","e","l","y"," ","a",
    "n","d"," ","v","a","l","u","e"," ","r","e","s","u","l","t","s"," ","h",
    "e","r","e",".">>
AQuotedOff ==
  <<"\"","B","a","n","a","n","a","s","\""," ","e","v","e","r","y","w","h","e",
    "r","e"," ","t","o","m","o","r","r","o","w"," ","m","a","y","b","e"," ",
    "c","e","r","t","a","i","n","l","y"," ","i","n","d","e","e","d",".">>
AHalf ==
  <<"[","S","o","u","r","c","e"," ","2","]"," ","s","a","y","s"," ","w","e",
    " ","h","i","r","e"," ","r","e","m","o","t","e","l","y"," ","a","n","d",
    " ","v","a","l","u","e"," ","r","e","s","u","l","t","s","."," ","B","a",
    "n","a","n","a","s"," ","e","v","e","r","y","w","h","e","r","e"," ","t",
    "o","m","o","r","r","o","w"," ","m","a","y","b","e"," ","c","e","r","t",
    "a","i","n","l","y",".">>
ANotMentioned ==
  <<"[","s","o","u","r","c","e"," ","1","2","]"," ","P","a","y","r","o","l",
    "l"," ","i","s"," ","N","o","t"," ","M","e","n","t","i","o","n","e","d",
    " ","i","n"," ","t","h","e"," ","p","a","g","e","s"," ","o","n"," ","p",
    "a","y","r","o","l","l"," ","a","n","d"," ","s","a","l","a","r","y",".">>
AShort ==
  <<"o","k">>
AEmpty ==
  <<>>
ATwoThirds ==
  <<"\"","Q","u","o","t","e","\""," ","w","e"," ","h","i","r","e"," ","r","e",
    "m","o","t","e","l","y"," ","a","n","d"," ","v","a","l","u","e"," ","r",
    "e","s","u","l","t","s","."," ","B","a","n","a","n","a","s"," ","e","v",
    "e","r","y","w","h","e","r","e"," ","t","o","m","o","r","r","o","w"," ",
    "m","a","y","b","e"," ","c","e","r","t","a","i","n","l","y","."," ","W",
    "e"," ","v","a","l","u","e"," ","r","e","s","u","l","t","s"," ","a","n",
    "d"," ","h","i","r","e"," ","r","e","m","o","t","e","l","y",".">>
AFourFifths ==
  <<"[","S","o","u","r","c","e"," ","1","]"," ","w","e"," ","h","i","r","e",
    " ","r","e","m","o","t","e","l","y"," ","a","n","d"," ","v","a","l","u",
    "e"," ","r","e","s","u","l","t","s","."," ","R","e","l","e","v","a","n",
    "t"," ","i","n","f","o","r","m","a","t","i","o","n"," ","f","r","o","m",
    " ","h","a","n","d","b","o","o","k"," ","p","a","g","e","s","."," ","W",
    "e"," ","v","a","l","u","e"," ","r","e","s","u","l","t","s"," ","a","n",
    "d"," ","h","i","r","e"," ","r","e","m","o","t","e","l","y","."," ","R",
    "e","m","o","t","e","l","y"," ","h","i","r","e"," ","v","a","l","u","e",
    " ","r","e","s","u","l","t","s"," ","i","n","f","o","r","m","a","t","i",
    "o","n","."," ","B","a","n","a","n","a","s"," ","e","v","e","r","y","w",
    "h","e","r","e"," ","t","o","m","o","r","r","o","w"," ","m","a","y","b",
    "e"," ","c","e","r","t","a","i","n","l","y",".">>

\* a filler of n characters without words, marks or quotes
Filler(n) == [i \in 1..n |-> "-"]

\* an uncertain answer and a plain answer, each longer than 1.5 times any context here
ALongUnsure == ADontKnow \o Filler(LongAnswerLen)
ALong == Filler(LongAnswerLen)

\* Answers the backend may give.
ConfResponses ==
  { ADontKnow, AShout, ACitedUnsure, ACited, APlain, AQuotedOff, AHalf,
    ANotMentioned, AShort, AEmpty, ALongUnsure, ALong, ATwoThirds, AFourFifths }

\* Chunks as buildContext reads them: the title and the text.
ConfChunks ==
  << [title |-> <<"H","i","r","e">>, text |-> <<"w","e"," ","h","i","r","e"," ","r","e","m","o","t","e","l","y"," ","a","n","d"," ","v","a","l","u","e"," ","r","e","s","u","l","t","s">>],
     [title |-> <<"P","a","y">>, text |-> <<"p","a","y","r","o","l","l"," ","r","u","n","s"," ","m","o","n","t","h","l","y">>],
     [title |-> <<"O","p","s">>, text |-> <<"o","n"," ","c","a","l","l"," ","r","o","t","a","t","i","o","n">>],
     [title |-> <<"V","a","l","u","e","s">>, text |-> <<"r","e","s","u","l","t","s"," ","m","a","t","t","e","r">>] >>

\* The contexts buildContext makes of the first n of them, n = 0..4.
ConfContexts == {BuildContext(SubSeq(ConfChunks, 1, n)) : n \in 0..Len(ConfChunks)}


(***************************************************************************)
(* State                                                                   *)
(***************************************************************************)
VARIABLES
  store,        \* RAGService.conversationStore: sessionId -> list of messages
  cache,        \* RAGService.cache: key -> [v: results, t: expiry time]
  now,          \* the wall clock, seconds
  proc,         \* per task: position in RAGService.query and its locals
  nextReq,      \* number given to the next request or direct append
  appendLog,    \* history: sessionId -> messages appended since the last clear
  completed,    \* history: sessionId -> queries completed since the last clear
  call,         \* a call followed on its own: method, arguments, result
  cacheStats,   \* node-cache's counters of the lookups: hits and misses
  disk,         \* data/conversations: sessionId -> history written to a file
  server,       \* the process: "running", "stopping" (signal received), "exited"
  feedback,     \* POST /feedback: the feedback file and the requests under way
  conv,         \* the file-backed ConversationStore, its files and its writes
  crawl         \* GitLabScraper: visited, queue and the position in scrapeHandbook

vars == <<store, cache, now, proc, nextReq, appendLog, completed, call,
          cacheStats, disk, server, feedback, conv, crawl>>

\* positions of a task inside RAGService.query: each is one await
Waiting == {"expand", "search", "resume", "generate"}
Finished == {"idle", "done", "failed", "invalid"}

\* no time recorded
NoTime == 0 - 1

\* no response returned
NoResponse == [sources |-> <<>>, chunksRetrieved |-> 0 - 1]

\* the call was not made by an HTTP request
NotPosted == [given |-> FALSE, hasQuery |-> FALSE, rawLen |-> 0, trimmedLen |-> 0]

\* no clear has run while the task was waiting
NotCleared == [during |-> "none", history |-> <<>>]

\* the await a waiting task is suspended on
Awaiting(pc) ==
  IF pc = "expand" THEN "rewriting"
  ELSE IF pc = "generate" THEN "generation"
  ELSE "retrieval"

\* the locals of a task that is not running a query, and what is recorded
\* about its request: abandoned (the caller stopped waiting), nSearch (calls of
\* vectorStore.search), rejected (searches that threw), searchedAt (when its
\* last search result was cached), hadPrior (see PriorSearch), nRewrite (calls
\* of llmService.expandQuery), nGenerate (calls of llmService.generateResponse),
\* response (what query() returned to its caller), cleared (the first clear of
\* its session that ran while it was waiting: on which await, and the history
\* that clear removed), thrown (the message of the error query() threw),
\* posted (the query field of the HTTP request that made the call)
IdleProc ==
  [pc |-> "idle", rid |-> 0, userQuery |-> <<>>, sessionId |-> NoSession,
   useQueryExpansion |-> FALSE, normalizedQuery |-> <<>>, queries |-> <<>>,
   qi |-> 0, pending |-> <<>>, allResults |-> <<>>, uniqueResults |-> <<>>,
   topResults |-> <<>>, history |-> <<>>, promptHistory |-> <<>>,
   error |-> "", abandoned |-> FALSE, nSearch |-> 0, rejected |-> 0,
   searchedAt |-> NoTime, hadPrior |-> FALSE, nRewrite |-> 0, nGenerate |-> 0,
   response |-> NoResponse, cleared |-> NotCleared, thrown |-> "",
   posted |-> NotPosted]

\* no call of a pure method is being followed
NoCall == [fn |-> "none", response |-> <<>>, context |-> <<>>, result |-> ""]

\* the state after "new RAGService()"
\* the feedback route before any request: no feedback file, no request
NoFeedback ==
  [file |-> [exists |-> FALSE, partial |-> FALSE, entries |-> <<>>],
   reqs |-> [r \in FeedbackIds |-> [pc |-> "idle", feedbackData |-> <<>>]]]
(***************************************************************************)
(* The file-backed ConversationStore: a Map of at most maxCacheSize        *)
(* sessions in insertion order, one file per session, writes that complete *)
(* after the call that issued them                                         *)
(***************************************************************************)
\* the sessions that have a file when the store is constructed, oldest file
\* first, each file with one message
StartFiles == [id \in 1..StoredAtStart |-> <<0>>]

\* Map.has, Map.get, Map.delete and Map.set on a list of entries in
\* insertion order: set on a key already there keeps its place
Keys(entries) == {entries[i].id : i \in 1..Len(entries)}

Entry(entries, id) ==
  entries[CHOOSE i \in 1..Len(entries) : entries[i].id = id].history

Without(entries, id) == SelectSeq(entries, LAMBDA e : e.id # id)

WithEntry(entries, id, history) ==
  IF id \in Keys(entries)
  THEN [i \in 1..Len(entries) |->
          IF entries[i].id = id THEN [id |-> id, history |-> history]
          ELSE entries[i]]
  ELSE Append(entries, [id |-> id, history |-> history])

\* loadRecentConversations: the files sorted by modification time, most
\* recent first, and the first maxCacheSize of them put into the Map
LoadRecentConversations(files) ==
  LET n == Cardinality(DOMAIN files)
      loaded == Min(n, maxCacheSize)
  IN [i \in 1..loaded |-> [id |-> n + 1 - i, history |-> files[n + 1 - i]]]

\* the order of the keys of a list of entries
KeyOrder(entries) == [i \in 1..Len(entries) |-> entries[i].id]

NoGet == [sessionId |-> 0, history |-> <<>>, evicted |-> FALSE,
          atEviction |-> <<>>, deleted |-> FALSE]

NoSet == [sessionId |-> 0, history |-> <<>>]

NoEviction == [was |-> FALSE, key |-> 0, leastRecent |-> 0]

\* the store after its constructor; with it what the properties look at:
\* the sessions in the order of their last use, the last eviction, the
\* history each evicted session had, the sessions deleted and not set since,
\* the last get with its result, the last set with its argument
NewStore ==
  [cache |-> LoadRecentConversations(StartFiles),
   dirtySessionIds |-> {},
   files |-> StartFiles,
   writes |-> {},
   ops |-> 0,
   used |-> KeyOrder(LoadRecentConversations(StartFiles)),
   eviction |-> NoEviction,
   evictedHistory |-> EmptyMap,
   deleted |-> {},
   lastGet |-> NoGet,
   lastSet |-> NoSet,
   lastOp |-> "constructor"]

\* the key moved to the end of the order of last use
Touch(used, id) == Append(SelectSeq(used, LAMBDA k : k # id), id)

\* saveAsync: the data is serialised at the call and fs.writeFile is started
SaveAsync(cv, sessionId, history) ==
  [cv EXCEPT !.writes = @ \cup {[sessionId |-> sessionId, history |-> history]}]

\* addToCache that evicts nothing
AddToCache_NoEvict(cv, sessionId, history) ==
  [cv EXCEPT !.cache = WithEntry(cv.cache, sessionId, history)]

\* addToCache: when the Map is full and the session is not in it, the first
\* key of the Map is saved with saveAsync and deleted; then the session is set
AddToCache(cv, sessionId, history) ==
  IF Len(cv.cache) >= maxCacheSize /\ sessionId \notin Keys(cv.cache)
  THEN LET oldestKey == cv.cache[1].id
           oldHistory == cv.cache[1].history
           saved == SaveAsync(cv, oldestKey, oldHistory)
       IN [saved EXCEPT
             !.cache = WithEntry(Without(cv.cache, oldestKey), sessionId, history),
             !.eviction = [was |-> TRUE, key |-> oldestKey,
                           leastRecent |-> cv.used[1]],
             !.used = SelectSeq(@, LAMBDA k : k # oldestKey),
             !.evictedHistory = MapSet(@, oldestKey, oldHistory)]
  ELSE [cv EXCEPT !.cache = WithEntry(cv.cache, sessionId, history)]

\* get: the entry of the Map; else the history of the file, which is added
\* to the Map; else an empty history
StoreGet(cv, sessionId) ==
  LET seen == [sessionId |-> sessionId, history |-> <<>>,
               evicted |-> sessionId \in DOMAIN cv.evictedHistory,
               atEviction |-> IF sessionId \in DOMAIN cv.evictedHistory
                              THEN cv.evictedHistory[sessionId] ELSE <<>>,
               deleted |-> sessionId \in cv.deleted]
  IN IF sessionId \in Keys(cv.cache)
     THEN [cv EXCEPT !.lastGet = [seen EXCEPT !.history = Entry(cv.cache, sessionId)],
                     !.used = Touch(@, sessionId)]
     ELSE IF sessionId \in DOMAIN cv.files
     THEN LET loaded == AddToCache(cv, sessionId, cv.files[sessionId])
          IN [loaded EXCEPT !.lastGet = [seen EXCEPT !.history = cv.files[sessionId]],
                            !.used = Touch(@, sessionId)]
     ELSE [cv EXCEPT !.lastGet = seen]

\* set: the last maxMessagePerSession messages go to the Map through
\* addToCache and the session is marked dirty
StoreSet(cv, sessionId, history) ==
  LET limitedHistory == LastN(history, maxMessagePerSession)
      added == AddToCache(cv, sessionId, limitedHistory)
  IN [added EXCEPT !.dirtySessionIds = @ \cup {sessionId},
                   !.used = Touch(@, sessionId),
                   !.evictedHistory = MapDelete(@, sessionId),
                   !.deleted = @ \ {sessionId},
                   !.lastSet = [sessionId |-> sessionId, history |-> history]]

\* delete: the session leaves the Map and its file is unlinked
StoreDelete(cv, sessionId) ==
  [cv EXCEPT !.cache = Without(@, sessionId),
             !.files = MapDelete(@, sessionId),
             !.used = SelectSeq(@, LAMBDA k : k # sessionId),
             !.evictedHistory = MapDelete(@, sessionId),
             !.deleted = @ \cup {sessionId}]

\* saveDirtySessions: saveAsync for every dirty session that is in the Map,
\* then the dirty set is cleared
SaveDirtySessions(cv) ==
  [cv EXCEPT
     !.writes = @ \cup {[sessionId |-> id, history |-> Entry(cv.cache, id)] :
                          id \in cv.dirtySessionIds \cap Keys(cv.cache)},
     !.dirtySessionIds = {}]

ConvRest == <<store, cache, cacheStats, now, proc, nextReq, appendLog, completed,
              call, disk, server, feedback, crawl>>

\* a caller reads the history of a session
Get(sessionId) ==
  /\ conv.ops < MaxConvOps
  /\ conv' = [StoreGet(conv, sessionId) EXCEPT !.ops = @ + 1, !.lastOp = "get"]
  /\ UNCHANGED ConvRest

\* a caller stores a history for a session
Set(sessionId, history) ==
  /\ conv.ops < MaxConvOps
  /\ conv' = [StoreSet(conv, sessionId, history) EXCEPT !.ops = @ + 1, !.lastOp = "set"]
  /\ UNCHANGED ConvRest

\* a caller deletes a session
Delete(sessionId) ==
  /\ conv.ops < MaxConvOps
  /\ conv' = [StoreDelete(conv, sessionId) EXCEPT !.ops = @ + 1, !.lastOp = "delete"]
  /\ UNCHANGED ConvRest

\* the auto-save timer fires
AutoSave ==
  /\ conv.ops < MaxConvOps
  /\ conv.dirtySessionIds # {}
  /\ conv' = [SaveDirtySessions(conv) EXCEPT !.ops = @ + 1, !.lastOp = "autosave"]
  /\ UNCHANGED ConvRest

\* a write started by saveAsync completes: the file holds the data of the call
WriteDone(w) ==
  /\ w \in conv.writes
  /\ conv' = [conv EXCEPT !.writes = @ \ {w},
                          !.files = MapSet(@, w.sessionId, w.history)]
  /\ UNCHANGED ConvRest

\* a write started by saveAsync fails: the error is logged in the callback
WriteFail(w) ==
  /\ w \in conv.writes
  /\ conv' = [conv EXCEPT !.writes = @ \ {w}]
  /\ UNCHANGED ConvRest

\* the scraper after its constructor; fetched, fetches and refetched record
\* the calls of fetchPage
NewScraper ==
  [visited |-> {}, queue |-> <<>>, url |-> 0, pc |-> "new",
   fetched |-> {}, fetches |-> 0, refetched |-> FALSE]
Init ==
  /\ store = EmptyMap
  /\ cache = EmptyMap
  /\ now = 0
  /\ proc = [p \in Slots |-> IdleProc]
  /\ nextReq = 1
  /\ appendLog = [s \in SessionIds |-> <<>>]
  /\ completed = [s \in SessionIds |-> 0]
  /\ call = NoCall
  /\ cacheStats = [hits |-> 0, misses |-> 0]
  /\ disk = EmptyMap
  /\ server = "running"
  /\ feedback = NoFeedback
  /\ conv = NewStore
  /\ crawl = NewScraper

Hist(s) == GetConversationHistory(store, s)

\* a task whose query() has returned or thrown: its locals are gone; what is
\* kept records how the request went
FinishedProc(pr, pc, error) ==
  [IdleProc EXCEPT !.pc = pc, !.error = error, !.rid = pr.rid,
                   !.sessionId = pr.sessionId, !.userQuery = pr.userQuery,
                   !.useQueryExpansion = pr.useQueryExpansion, !.qi = pr.qi,
                   !.abandoned = pr.abandoned, !.nSearch = pr.nSearch,
                   !.rejected = pr.rejected, !.searchedAt = pr.searchedAt,
                   !.hadPrior = pr.hadPrior, !.nRewrite = pr.nRewrite,
                   !.nGenerate = pr.nGenerate, !.response = pr.response,
                   !.cleared = pr.cleared, !.thrown = pr.thrown,
                   !.posted = pr.posted]

\* a message as query() builds it and addToConversationHistory stamps it;
\* rid records the request (or direct call) that wrote it
Message(role, content, rid) ==
  [role |-> role, content |-> content, timestamp |-> now, rid |-> rid]

\* retrieveContext keying the cache by session as well
EnterRetrieve_SessionKey(p, pr) ==
  LET cacheKey == GetCacheKey(pr.queries[pr.qi], pr.sessionId)
  IN /\ cache' = CacheAfterGet(cache, cacheKey, now)
     /\ IF CacheLive(cache, cacheKey, now)
        THEN /\ proc' = [proc EXCEPT ![p] =
                          [pr EXCEPT !.pc = "resume", !.pending = cache[cacheKey].v]]
             /\ cacheStats' = [cacheStats EXCEPT !.hits = @ + 1]
        ELSE /\ proc' = [proc EXCEPT ![p] =
                          [pr EXCEPT !.pc = "search", !.nSearch = pr.nSearch + 1]]
             /\ cacheStats' = [cacheStats EXCEPT !.misses = @ + 1]

\* retrieveContext without the cache lookup
EnterRetrieve_NoLookup(p, pr) ==
  /\ UNCHANGED <<feedback, conv, crawl, cache, cacheStats>>
  /\ proc' = [proc EXCEPT ![p] = [pr EXCEPT !.pc = "search", !.nSearch = pr.nSearch + 1]]

(***************************************************************************)
(* RAGService.retrieveContext up to its first await, for the phrasing      *)
(* pr.queries[pr.qi] of task p: the cache lookup and, on a miss, the call  *)
(* of vectorStore.search.                                                  *)
(***************************************************************************)
EnterRetrieve(p, pr) ==
  LET cacheKey == GetCacheKey(pr.queries[pr.qi], NoSession)
  IN /\ cache' = CacheAfterGet(cache, cacheKey, now)
     /\ IF CacheLive(cache, cacheKey, now)
        THEN /\ proc' = [proc EXCEPT ![p] =
                          [pr EXCEPT !.pc = "resume", !.pending = cache[cacheKey].v]]
             /\ cacheStats' = [cacheStats EXCEPT !.hits = @ + 1]
        ELSE /\ proc' = [proc EXCEPT ![p] =
                          [pr EXCEPT !.pc = "search", !.nSearch = pr.nSearch + 1]]
             /\ cacheStats' = [cacheStats EXCEPT !.misses = @ + 1]

\* the same text up to letter case and whitespace, stated without normalizeQuery
SameText(a, b) ==
  SelectSeq(SplitSpaces(ToLowerCase(a), <<>>), LAMBDA w : w # <<>>)
    = SelectSeq(SplitSpaces(ToLowerCase(b), <<>>), LAMBDA w : w # <<>>)

\* some request without expansion and with the same text has had its search
\* result cached no longer than the TTL ago
PriorSearch(userQuery) ==
  \E r \in Slots : /\ proc[r].searchedAt # NoTime
                    /\ ~proc[r].useQueryExpansion
                    /\ SameText(proc[r].userQuery, userQuery)
                    /\ now <= proc[r].searchedAt + StdTTL

(***************************************************************************)
(* RAGService.query, from the call to its first await; base is the record  *)
(* of the task before the call                                             *)
(***************************************************************************)
StartFrom(p, base, userQuery, sessionId, useQueryExpansion) ==
  /\ proc[p].pc \in Finished
  /\ \A o \in Slots : SlotRank(o) < SlotRank(p) => proc[o].pc \notin Finished
  /\ nextReq' = nextReq + 1
  /\ LET normalizedQuery == NormalizeQuery(userQuery)
         pr == [base EXCEPT !.rid = nextReq, !.userQuery = userQuery,
                                !.sessionId = sessionId,
                                !.useQueryExpansion = useQueryExpansion,
                                !.normalizedQuery = normalizedQuery,
                                !.hadPrior = PriorSearch(userQuery)]
     IN IF useQueryExpansion
        THEN /\ proc' = [proc EXCEPT ![p] = [pr EXCEPT !.pc = "expand", !.nRewrite = 1]]
             /\ UNCHANGED <<cache, cacheStats>>
        ELSE EnterRetrieve(p, [pr EXCEPT !.queries = <<normalizedQuery>>, !.qi = 1])
  /\ UNCHANGED <<feedback, conv, crawl, store, now, appendLog, completed, call, disk, server>>

\* RAGService.query called directly
Start(p, userQuery, sessionId, useQueryExpansion) ==
  StartFrom(p, IdleProc, userQuery, sessionId, useQueryExpansion)

\* llmService.expandQuery resolves: the backend answered with these lines
ExpandReturn(p, lines) ==
  /\ proc[p].pc = "expand"
  /\ EnterRetrieve(p, [proc[p] EXCEPT
                        !.queries = RewriteQuery(proc[p].normalizedQuery, lines),
                        !.qi = 1])
  /\ UNCHANGED <<feedback, conv, crawl, store, now, nextReq, appendLog, completed, call, disk, server>>

\* rewriteQuery rethrowing the error of the backend
ExpandFail_Fatal(p) ==
  /\ proc[p].pc = "expand"
  /\ proc' = [proc EXCEPT ![p] = FinishedProc(proc[p], "failed", "rewrite")]
  /\ UNCHANGED <<feedback, conv, crawl, store, cache, cacheStats, now, nextReq, appendLog, completed, call, disk, server>>

\* llmService.expandQuery resolves: the backend call threw
ExpandFail(p) ==
  /\ proc[p].pc = "expand"
  /\ EnterRetrieve(p, [proc[p] EXCEPT
                        !.queries = RewriteQueryFailed(proc[p].normalizedQuery),
                        !.qi = 1])
  /\ UNCHANGED <<feedback, conv, crawl, store, now, nextReq, appendLog, completed, call, disk, server>>

\* vectorStore.search resolves: filter, cache.set, return
SearchReturn(p, results) ==
  /\ proc[p].pc = "search"
  /\ LET cacheKey == GetCacheKey(proc[p].queries[proc[p].qi], NoSession)
         filteredResults == FilterResults(results)
     IN /\ cache' = CacheSet(cache, cacheKey, filteredResults, now)
        /\ cacheStats' = cacheStats
        /\ proc' = [proc EXCEPT ![p].pc = "resume", ![p].pending = filteredResults,
                                ![p].searchedAt = now]
  /\ UNCHANGED <<feedback, conv, crawl, store, now, nextReq, appendLog, completed, call, disk, server>>

\* what the index or the embedding backend may say when a search fails
BackendErrors == {"PineconeConnectionError: Request failed to reach Pinecone"}

\* the message of the error generateResponse throws, whatever the backend said
GenerationFailure == "Failed to generate response. Please try again."

\* a catch block that swallows the error and goes on with no results
OnSearchError_Tolerant(pr) == [pr EXCEPT !.pc = "resume", !.pending = <<>>]

\* the catch blocks of retrieveContext and query: both rethrow
OnSearchError(pr) == FinishedProc(pr, "failed", "retrieval")

\* retrieveContext caching an empty list when the search threw
SearchFail_CacheEmpty(p) ==
  /\ proc[p].pc = "search"
  /\ \E message \in BackendErrors :
       proc' = [proc EXCEPT ![p] =
                  [OnSearchError([proc[p] EXCEPT !.rejected = @ + 1,
                                                 !.thrown = message]) EXCEPT
                     !.rejected = proc[p].rejected + 1]]
  /\ cache' = CacheSet(cache, GetCacheKey(proc[p].queries[proc[p].qi], NoSession), <<>>, now)
  /\ cacheStats' = cacheStats
  /\ UNCHANGED <<feedback, conv, crawl, store, now, nextReq, appendLog, completed, call, disk, server>>

\* vectorStore.search rejects with an error of the index or of the embedding
\* backend, which search, retrieveContext and query each log and rethrow
SearchFail(p) ==
  /\ proc[p].pc = "search"
  /\ \E message \in BackendErrors :
       proc' = [proc EXCEPT ![p] =
                  [OnSearchError([proc[p] EXCEPT !.rejected = @ + 1,
                                                 !.thrown = message]) EXCEPT
                     !.rejected = proc[p].rejected + 1]]
  /\ UNCHANGED <<feedback, conv, crawl, store, cache, cacheStats, now, nextReq, appendLog, completed, call, disk, server>>

\* generateResponse putting the oldest turns of the history in the prompt
PromptHistory_Oldest(conversationHistory) ==
  SubSeq(conversationHistory, 1, Min(PromptWindow, Len(conversationHistory)))

\* generateResponse: the turns of the history that go into the prompt
PromptHistory(conversationHistory) == LastN(conversationHistory, PromptWindow)

\* query reading the history after having stored its own user turn
EnterGenerate_ReadAfterWrite(p, pr) ==
  LET uniqueResults == UniqueResults(pr.allResults)
      rerankedResults == RerankResults(uniqueResults, pr.normalizedQuery, now)
      conversationHistory ==
        GetConversationHistory(
          AddToConversationHistory(store, pr.sessionId,
                                   Message("user", pr.userQuery, pr.rid)),
          pr.sessionId)
  IN /\ proc' = [proc EXCEPT ![p] =
                   [pr EXCEPT !.pc = "generate",
                              !.nGenerate = pr.nGenerate + 1,
                              !.uniqueResults = uniqueResults,
                              !.topResults = TopResults(rerankedResults),
                              !.history = conversationHistory,
                              !.promptHistory = PromptHistory(conversationHistory)]]
     /\ UNCHANGED <<cache, cacheStats>>

\* query after the retrieval loop: deduplicate, rerank, read the history and
\* call llmService.generateResponse, which builds its prompt and awaits the backend
EnterGenerate(p, pr) ==
  LET uniqueResults == UniqueResults(pr.allResults)
      rerankedResults == RerankResults(uniqueResults, pr.normalizedQuery, now)
      conversationHistory == GetConversationHistory(store, pr.sessionId)
  IN /\ proc' = [proc EXCEPT ![p] =
                   [pr EXCEPT !.pc = "generate",
                              !.nGenerate = pr.nGenerate + 1,
                              !.uniqueResults = uniqueResults,
                              !.topResults = TopResults(rerankedResults),
                              !.history = conversationHistory,
                              !.promptHistory = PromptHistory(conversationHistory)]]
     /\ UNCHANGED <<cache, cacheStats>>

\* query answering at once, without the generator, when nothing was retrieved
Resume_ShortCircuit(p) ==
  /\ proc[p].pc = "resume"
  /\ LET pr == [proc[p] EXCEPT !.allResults = proc[p].allResults \o proc[p].pending,
                               !.pending = <<>>]
     IN IF pr.qi < Len(pr.queries)
        THEN EnterRetrieve(p, [pr EXCEPT !.qi = pr.qi + 1])
        ELSE IF pr.allResults = <<>>
        THEN /\ proc' = [proc EXCEPT ![p] =
                          FinishedProc([pr EXCEPT !.response.chunksRetrieved = 0],
                                       "done", "")]
             /\ UNCHANGED <<cache, cacheStats>>
        ELSE EnterGenerate(p, pr)
  /\ UNCHANGED <<feedback, conv, crawl, store, now, nextReq, appendLog, completed, call, disk, server>>

\* query resumes after "await this.retrieveContext(...)"
Resume(p) ==
  /\ proc[p].pc = "resume"
  /\ LET pr == [proc[p] EXCEPT !.allResults = proc[p].allResults \o proc[p].pending,
                               !.pending = <<>>]
     IN IF pr.qi < Len(pr.queries)
        THEN EnterRetrieve(p, [pr EXCEPT !.qi = pr.qi + 1])
        ELSE EnterGenerate(p, pr)
  /\ UNCHANGED <<feedback, conv, crawl, store, now, nextReq, appendLog, completed, call, disk, server>>

\* chunk.score ? chunk.score.toFixed(3) : null (scores are in thousandths)
RelevanceScore(chunk) ==
  IF chunk.score = NullScore \/ chunk.score = 0 THEN NullScore ELSE chunk.score

\* generateResponse after the backend answered: the sources and the metadata
GenerateResponse(retrievedChunks) ==
  [sources |-> [index \in 1..Len(retrievedChunks) |->
                  [id |-> index,
                   title |-> retrievedChunks[index].title,
                   relevanceScore |-> RelevanceScore(retrievedChunks[index])]],
   chunksRetrieved |-> Len(retrievedChunks)]

\* query writing back the history it read before the generation call
GenerateReturn_Stale(p, answer) ==
  /\ proc[p].pc = "generate"
  /\ LET sid == proc[p].sessionId
         userMsg == Message("user", proc[p].userQuery, proc[p].rid)
         assistantMsg == Message("assistant", answer, proc[p].rid)
     IN /\ store' = IF sid = NoSession THEN store
                    ELSE MapSet(store, sid,
                           LastN(proc[p].history \o <<userMsg, assistantMsg>>, MaxHistory))
        /\ IF sid \in SessionIds
           THEN /\ appendLog' = [appendLog EXCEPT ![sid] = @ \o <<userMsg, assistantMsg>>]
                /\ completed' = [completed EXCEPT ![sid] = @ + 1]
           ELSE UNCHANGED <<appendLog, completed>>
  /\ proc' = [proc EXCEPT ![p] =
                FinishedProc([proc[p] EXCEPT !.response = GenerateResponse(proc[p].topResults)],
                             "done", "")]
  /\ UNCHANGED <<feedback, conv, crawl, cache, cacheStats, now, nextReq, call, disk, server>>

\* query dropping the turns of a request whose caller stopped waiting
GenerateReturn_SkipAbandoned(p, answer) ==
  /\ proc[p].pc = "generate"
  /\ LET sid == proc[p].sessionId
         userMsg == Message("user", proc[p].userQuery, proc[p].rid)
         assistantMsg == Message("assistant", answer, proc[p].rid)
     IN IF proc[p].abandoned
        THEN UNCHANGED <<store, appendLog, completed>>
        ELSE /\ store' = AddToConversationHistory(
                           AddToConversationHistory(store, sid, userMsg), sid, assistantMsg)
             /\ IF sid \in SessionIds
                THEN /\ appendLog' = [appendLog EXCEPT ![sid] = @ \o <<userMsg, assistantMsg>>]
                     /\ completed' = [completed EXCEPT ![sid] = @ + 1]
                ELSE UNCHANGED <<appendLog, completed>>
  /\ proc' = [proc EXCEPT ![p] =
                FinishedProc([proc[p] EXCEPT !.response = GenerateResponse(proc[p].topResults)],
                             "done", "")]
  /\ UNCHANGED <<feedback, conv, crawl, cache, cacheStats, now, nextReq, call, disk, server>>

\* the generation backend answers: query stores both turns and returns
GenerateReturn(p, answer) ==
  /\ proc[p].pc = "generate"
  /\ LET sid == proc[p].sessionId
         userMsg == Message("user", proc[p].userQuery, proc[p].rid)
         assistantMsg == Message("assistant", answer, proc[p].rid)
     IN /\ store' = AddToConversationHistory(
                      AddToConversationHistory(store, sid, userMsg), sid, assistantMsg)
        /\ IF sid \in SessionIds
           THEN /\ appendLog' = [appendLog EXCEPT ![sid] = @ \o <<userMsg, assistantMsg>>]
                /\ completed' = [completed EXCEPT ![sid] = @ + 1]
           ELSE UNCHANGED <<appendLog, completed>>
  /\ proc' = [proc EXCEPT ![p] =
                FinishedProc([proc[p] EXCEPT !.response = GenerateResponse(proc[p].topResults)],
                             "done", "")]
  /\ UNCHANGED <<feedback, conv, crawl, cache, cacheStats, now, nextReq, call, disk, server>>

\* query storing the user turn before the generation call
GenerateFail_Commit(p) ==
  /\ proc[p].pc = "generate"
  /\ store' = AddToConversationHistory(store, proc[p].sessionId,
                 Message("user", proc[p].userQuery, proc[p].rid))
  /\ proc' = [proc EXCEPT ![p] =
                FinishedProc([proc[p] EXCEPT !.thrown = GenerationFailure],
                             "failed", "generation")]
  /\ UNCHANGED <<feedback, conv, crawl, cache, cacheStats, now, nextReq, appendLog, completed, call, disk, server>>

\* the generation backend fails: generateResponse throws, query rethrows
GenerateFail(p) ==
  /\ proc[p].pc = "generate"
  /\ proc' = [proc EXCEPT ![p] =
                FinishedProc([proc[p] EXCEPT !.thrown = GenerationFailure],
                             "failed", "generation")]
  /\ UNCHANGED <<feedback, conv, crawl, store, cache, cacheStats, now, nextReq, appendLog, completed, call, disk, server>>

\* POST /clear -> clearConversationHistory
Clear(sessionId) ==
  /\ store' = ClearConversationHistory(store, sessionId)
  /\ appendLog' = [appendLog EXCEPT ![sessionId] = <<>>]
  /\ completed' = [completed EXCEPT ![sessionId] = 0]
  /\ UNCHANGED <<feedback, conv, crawl, cache, cacheStats, now, proc, nextReq, call, disk, server>>

\* clearConversationHistory reaching into the queries of the session that are
\* waiting, so that they return without storing their turns
ClearRecorded_Cancelling(sessionId) ==
  /\ store' = ClearConversationHistory(store, sessionId)
  /\ appendLog' = [appendLog EXCEPT ![sessionId] = <<>>]
  /\ completed' = [completed EXCEPT ![sessionId] = 0]
  /\ proc' = [p \in Slots |->
                IF proc[p].pc \in Waiting /\ proc[p].sessionId = sessionId
                THEN [proc[p] EXCEPT !.sessionId = NoSession,
                                     !.cleared = [during |-> Awaiting(proc[p].pc),
                                                  history |-> Hist(sessionId)]]
                ELSE proc[p]]
  /\ UNCHANGED <<feedback, conv, crawl, cache, cacheStats, now, nextReq, call, disk, server>>

\* POST /clear -> clearConversationHistory, as Clear, with a record of it left
\* on the queries of the session that are waiting (the first clear only); the
\* code does not touch them
ClearRecorded(sessionId) ==
  /\ store' = ClearConversationHistory(store, sessionId)
  /\ appendLog' = [appendLog EXCEPT ![sessionId] = <<>>]
  /\ completed' = [completed EXCEPT ![sessionId] = 0]
  /\ proc' = [p \in Slots |->
                IF /\ proc[p].pc \in Waiting /\ proc[p].sessionId = sessionId
                   /\ proc[p].cleared = NotCleared
                THEN [proc[p] EXCEPT !.cleared = [during |-> Awaiting(proc[p].pc),
                                                  history |-> Hist(sessionId)]]
                ELSE proc[p]]
  /\ UNCHANGED <<feedback, conv, crawl, cache, cacheStats, now, nextReq, call, disk, server>>

\* a direct call of addToConversationHistory; the turn carries its number
\* among the turns appended to the session since the last clear, negated
DirectAppend(sessionId, role) ==
  /\ LET n == IF sessionId \in SessionIds THEN Len(appendLog[sessionId]) + 1 ELSE 0
         msg == Message(role, <<"t">>, 0 - n)
     IN /\ n <= MaxAppends
        /\ store' = AddToConversationHistory(store, sessionId, msg)
        /\ IF sessionId \in SessionIds
           THEN appendLog' = [appendLog EXCEPT ![sessionId] = Append(@, msg)]
           ELSE UNCHANGED appendLog
  /\ UNCHANGED <<feedback, conv, crawl, cache, cacheStats, now, proc, nextReq, completed, call, disk, server>>

\* the caller of a pending query stops waiting for it (a request-level timeout);
\* the promise returned by query() is not cancelled by that
Abandon(p) ==
  /\ proc[p].pc \in Waiting
  /\ ~proc[p].abandoned
  /\ proc' = [proc EXCEPT ![p].abandoned = TRUE]
  /\ UNCHANGED <<feedback, conv, crawl, store, cache, cacheStats, now, nextReq, appendLog, completed, call, disk, server>>

\* time passes
Tick ==
  /\ now + TickStep <= MaxTime
  /\ now' = now + TickStep
  /\ UNCHANGED <<feedback, conv, crawl, store, cache, cacheStats, proc, nextReq, appendLog, completed, call, disk, server>>

\* d seconds pass
Elapse(d) ==
  /\ now + d <= MaxCacheTime
  /\ now' = now + d
  /\ UNCHANGED <<feedback, conv, crawl, store, cache, cacheStats, proc, nextReq, appendLog, completed, call, disk, server>>

\* node-cache's periodic check removes the expired entries
CacheSweep ==
  /\ \E k \in DOMAIN cache : cache[k].t < now
  /\ cache' = [k \in {x \in DOMAIN cache : ~(cache[x].t < now)} |-> cache[k]]
  /\ cacheStats' = cacheStats
  /\ UNCHANGED <<feedback, conv, crawl, store, now, proc, nextReq, appendLog, completed, call, disk, server>>

\* assessConfidence is called with an answer and a context
AssessCall(response, context) ==
  /\ call.result # "pending"
  /\ call' = [fn |-> "assessConfidence", response |-> response, context |-> context,
              result |-> "pending"]
  /\ UNCHANGED <<feedback, conv, crawl, store, cache, cacheStats, now, proc, nextReq, appendLog, completed, disk, server>>

\* assessConfidence returns
AssessReturn ==
  /\ call.fn = "assessConfidence" /\ call.result = "pending"
  /\ call' = [call EXCEPT !.result = AssessConfidence(call.response, call.context)]
  /\ UNCHANGED <<feedback, conv, crawl, store, cache, cacheStats, now, proc, nextReq, appendLog, completed, disk, server>>

(***************************************************************************)
(* The HTTP layer: validation, the routes of the chat API, the error       *)
(* handler, the statistics and the shutdown of the process                 *)
(***************************************************************************)
\* String.prototype.trim as Joi's string().trim() applies it when converting
JoiTrim(s) ==
  IF \A i \in 1..Len(s) : IsSpace(s[i]) THEN <<>>
  ELSE LET first == CHOOSE i \in 1..Len(s) :
                      ~IsSpace(s[i]) /\ \A j \in 1..(i - 1) : IsSpace(s[j])
           last == CHOOSE i \in 1..Len(s) :
                     ~IsSpace(s[i]) /\ \A j \in (i + 1)..Len(s) : IsSpace(s[j])
       IN SubSeq(s, first, last)

\* a text of n characters that are not whitespace
Letters(n) == [i \in 1..n |-> "a"]

\* a text followed by whitespace up to n characters in all
PadTo(text, n) == [i \in 1..n |-> IF i <= Len(text) THEN text[i] ELSE " "]

\* the session id a request body spells
SessionText == <<"s","1">>
SessionIdOf(text) == IF text = SessionText THEN "s1" ELSE "s2"

\* a request body: which fields it has and what they hold
Body(hasQuery, query, hasSessionId, sessionId, useQueryExpansion) ==
  [hasQuery |-> hasQuery, query |-> query, hasSessionId |-> hasSessionId,
   sessionId |-> sessionId, useQueryExpansion |-> useQueryExpansion]

\* schemas.query validated with conversion: the query is required, trimmed,
\* not empty and at most 1000 characters; the session id is optional, not
\* empty and at most 100 characters; useQueryExpansion defaults to false
Validate(body) ==
  LET query == JoiTrim(body.query)
      queryError == \/ ~body.hasQuery
                    \/ Len(query) < 1
                    \/ Len(query) > QueryMaxLen
      sessionError == /\ body.hasSessionId
                      /\ \/ Len(body.sessionId) < 1
                         \/ Len(body.sessionId) > SessionIdMaxLen
  IN [error |-> queryError \/ sessionError,
      value |-> [query |-> query,
                 sessionId |-> IF body.hasSessionId THEN SessionIdOf(body.sessionId)
                               ELSE NoSession,
                 useQueryExpansion |-> body.useQueryExpansion = "true"]]

\* what is recorded of the query field of a request
Posted(body) ==
  [given |-> TRUE, hasQuery |-> body.hasQuery, rawLen |-> Len(body.query),
   trimmedLen |-> Len(JoiTrim(body.query))]

\* sessionId || nanoid(): the id of the body, or else a new one
RouteSessionIds(value) ==
  IF value.sessionId # NoSession THEN {value.sessionId}
  ELSE {sid \in SessionIds : /\ sid \notin DOMAIN store
                             /\ \A p \in Slots : proc[p].sessionId # sid}

\* POST /query passing a request that fails validation on to the handler
PostQuery_Unchecked(p, body) ==
  /\ proc[p].pc \in Finished
  /\ \E sid \in RouteSessionIds(Validate(body).value) :
        StartFrom(p, [IdleProc EXCEPT !.posted = Posted(body)], body.query, sid,
                  Validate(body).value.useQueryExpansion)

\* POST /query: validate('query') answers 400 itself or replaces the body by
\* the validated value and lets the handler call ragService.query
PostQuery(p, body) ==
  /\ proc[p].pc \in Finished
  /\ IF Validate(body).error
     THEN /\ \A o \in Slots : SlotRank(o) < SlotRank(p) => proc[o].pc \notin Finished
          /\ proc' = [proc EXCEPT ![p] =
                        [IdleProc EXCEPT !.pc = "invalid", !.rid = nextReq,
                                         !.posted = Posted(body)]]
          /\ nextReq' = nextReq + 1
          /\ UNCHANGED <<store, cache, cacheStats, now, appendLog, completed, call,
                         disk, server, feedback, conv, crawl>>
     ELSE \E sid \in RouteSessionIds(Validate(body).value) :
            StartFrom(p, [IdleProc EXCEPT !.posted = Posted(body)],
                      Validate(body).value.query, sid,
                      Validate(body).value.useQueryExpansion)

\* errorHandler: err.statusCode || 500, err.message || 'Internal server error'
ErrorHandler(message) ==
  [status |-> 500, success |-> FALSE,
   message |-> IF message = "" THEN "Internal server error" ELSE message]

\* the HTTP response to the request of a task: by the validator, by the
\* handler of POST /query, or by the error handler that asyncHandler passes
\* the rejection of query() to; status 0 while there is none
HttpResponse(pr) ==
  IF pr.pc = "invalid"
  THEN [status |-> 400, success |-> FALSE, message |-> "Validation error"]
  ELSE IF pr.pc = "done" THEN [status |-> 200, success |-> TRUE, message |-> ""]
  ELSE IF pr.pc = "failed" THEN ErrorHandler(pr.thrown)
  ELSE [status |-> 0, success |-> FALSE, message |-> ""]

\* how vectorStore.getStats may go: no index, describeIndexStats throwing,
\* describeIndexStats answering
VectorStatsOutcomes == {"uninitialized", "throws", "ok"}

\* VectorStore.getStats: every error is caught and reported in the result
VectorStoreGetStats(outcome) ==
  IF outcome = "uninitialized"
  THEN [totalChunks |-> 0, indexName |-> "Not initialized",
        error |-> "Vector store not initialized"]
  ELSE IF outcome = "throws"
  THEN [totalChunks |-> 0, indexName |-> "", error |-> "describeIndexStats failed"]
  ELSE [totalChunks |-> 1, indexName |-> "gitlab", error |-> ""]

\* hits / (hits + misses) || 0, in thousandths
HitRate(hits, misses) ==
  IF hits + misses = 0 THEN 0 ELSE (1000 * hits) \div (hits + misses)

\* RAGService.getStats after "await this.vectorStore.getStats()"
GetStats(vectorStats) ==
  [vectorStore |-> vectorStats,
   cache |-> [keys |-> Cardinality(DOMAIN cache),
              hits |-> cacheStats.hits,
              misses |-> cacheStats.misses,
              hitRate |-> HitRate(cacheStats.hits, cacheStats.misses)],
   activeSessions |-> Cardinality(DOMAIN store)]

\* GET /stats: the handler calls ragService.getStats, which awaits the index
StatsCall ==
  /\ call.result # "pending"
  /\ call' = [fn |-> "getStats", response |-> <<>>, context |-> <<>>,
              result |-> "pending"]
  /\ UNCHANGED <<feedback, conv, crawl, store, cache, cacheStats, now, proc, nextReq, appendLog, completed,
                 disk, server>>

\* getStats letting the error of describeIndexStats through to the error handler
StatsReturn_Propagate(outcome) ==
  /\ call.fn = "getStats" /\ call.result = "pending"
  /\ call' = IF outcome = "throws"
             THEN [fn |-> "getStats", response |-> <<>>, context |-> <<>>,
                   result |-> "failed", data |-> GetStats(VectorStoreGetStats(outcome))]
             ELSE [fn |-> "getStats", response |-> <<>>, context |-> <<>>,
                   result |-> "success", data |-> GetStats(VectorStoreGetStats(outcome))]
  /\ UNCHANGED <<feedback, conv, crawl, store, cache, cacheStats, now, proc, nextReq, appendLog, completed,
                 disk, server>>

\* vectorStore.getStats resolves; getStats reads the cache counters and the
\* size of the conversation store, and the handler answers success with them
StatsReturn(outcome) ==
  /\ call.fn = "getStats" /\ call.result = "pending"
  /\ call' = [fn |-> "getStats", response |-> <<>>, context |-> <<>>,
              result |-> "success", data |-> GetStats(VectorStoreGetStats(outcome))]
  /\ UNCHANGED <<feedback, conv, crawl, store, cache, cacheStats, now, proc, nextReq, appendLog, completed,
                 disk, server>>

\* SIGTERM or SIGINT: the shutdown handler starts and awaits the import of
\* the RAG service module
Signal ==
  /\ server = "running"
  /\ server' = "stopping"
  /\ UNCHANGED <<feedback, conv, crawl, store, cache, cacheStats, now, proc, nextReq, appendLog, completed,
                 call, disk>>

\* the store of "new RAGService()": a new Map, which holds no conversation
\* and has no shutdown method
NewConversationStore == [sessions |-> EmptyMap, hasShutdown |-> FALSE]

\* The shutdown handler goes on: it makes a new RAGService, calls the
\* shutdown method of its conversation store if there is one (which would
\* write the conversations of that store to their files), and exits. The
\* store of the service that serves the requests is not looked at.
Exit ==
  /\ server = "stopping"
  /\ LET ragInstance == [conversationStore |-> NewConversationStore]
     IN disk' = IF ragInstance.conversationStore.hasShutdown
                THEN [sid \in DOMAIN disk \cup DOMAIN ragInstance.conversationStore.sessions |->
                        IF sid \in DOMAIN ragInstance.conversationStore.sessions
                        THEN ragInstance.conversationStore.sessions[sid]
                        ELSE disk[sid]]
                ELSE disk
  /\ server' = "exited"
  /\ UNCHANGED <<feedback, conv, crawl, store, cache, cacheStats, now, proc, nextReq, appendLog, completed,
                 call>>

(***************************************************************************)
(* POST /feedback: each request reads the feedback file, adds its entry    *)
(* and writes the file back; the handler waits for the read and the write  *)
(***************************************************************************)
\* the request passes validation; the entry is built with a new id and the
\* handler waits for fs.readFile
FeedbackPost(r) ==
  /\ feedback.reqs[r].pc = "idle"
  /\ feedback' = [feedback EXCEPT !.reqs[r].pc = "reading"]
  /\ UNCHANGED <<store, cache, cacheStats, now, proc, nextReq, appendLog, completed,
                 call, disk, server, conv, crawl>>

\* fs.readFile settles: the parsed list, or an empty list when the file is
\* missing or does not parse (a file being written is cut short); the entry
\* is pushed and the handler waits for fs.writeFile
FeedbackRead(r) ==
  /\ feedback.reqs[r].pc = "reading"
  /\ LET feedbackData == IF feedback.file.exists /\ ~feedback.file.partial
                         THEN feedback.file.entries ELSE <<>>
     IN feedback' = [feedback EXCEPT !.reqs[r] =
                       [pc |-> "opening", feedbackData |-> Append(feedbackData, r)]]
  /\ UNCHANGED <<store, cache, cacheStats, now, proc, nextReq, appendLog, completed,
                 call, disk, server, conv, crawl>>

\* fs.writeFile opens the file for writing, which empties it
FeedbackWriteOpen(r) ==
  /\ feedback.reqs[r].pc = "opening"
  /\ feedback' = [feedback EXCEPT
                    !.file = [exists |-> TRUE, partial |-> TRUE, entries |-> <<>>],
                    !.reqs[r].pc = "writing"]
  /\ UNCHANGED <<store, cache, cacheStats, now, proc, nextReq, appendLog, completed,
                 call, disk, server, conv, crawl>>

\* fs.writeFile rejects: the error is logged and rethrown, the answer is 500
FeedbackWriteFail(r) ==
  /\ feedback.reqs[r].pc = "opening"
  /\ feedback' = [feedback EXCEPT !.reqs[r].pc = "failed"]
  /\ UNCHANGED <<store, cache, cacheStats, now, proc, nextReq, appendLog, completed,
                 call, disk, server, conv, crawl>>

\* fs.writeFile resolves: the file holds the list of this request, and the
\* handler answers success with the id of the entry
FeedbackWriteDone(r) ==
  /\ feedback.reqs[r].pc = "writing"
  /\ feedback' = [feedback EXCEPT
                    !.file = [exists |-> TRUE, partial |-> FALSE,
                              entries |-> feedback.reqs[r].feedbackData],
                    !.reqs[r].pc = "success"]
  /\ UNCHANGED <<store, cache, cacheStats, now, proc, nextReq, appendLog, completed,
                 call, disk, server, conv, crawl>>

(***************************************************************************)
(* retryWithBackoff, followed call by call of fn                           *)
(***************************************************************************)
\* the errors fn is seen to reject with; shouldRetry is false for the last
RetryErrors ==
  { [message |-> "429 rate limit", retryable |-> TRUE],
    [message |-> "ECONNRESET", retryable |-> TRUE],
    [message |-> "401 invalid api key", retryable |-> FALSE] }

ShouldRetry(error) == error.retryable

NoError == [message |-> "", retryable |-> FALSE]

CallRest == <<store, cache, cacheStats, now, proc, nextReq, appendLog, completed,
              disk, server, feedback, conv, crawl>>

\* retryWithBackoff(fn, {maxRetries, shouldRetry, onRetry}) is called: the
\* delay starts at initialDelay and the first attempt calls fn
RetryWithBackoff(maxRetries) ==
  /\ call.result # "pending"
  /\ call' = [fn |-> "retryWithBackoff", result |-> "pending", pc |-> "fn",
              maxRetries |-> maxRetries, attempt |-> 0, delay |-> initialDelay,
              lastError |-> NoError, thrown |-> NoError,
              errors |-> <<>>, onRetryCalls |-> <<>>, sleeps |-> <<>>,
              invocations |-> 1, response |-> <<>>, context |-> <<>>]
  /\ UNCHANGED CallRest

\* fn resolves: its value is returned
FnResolve ==
  /\ call.fn = "retryWithBackoff" /\ call.pc = "fn"
  /\ call' = [call EXCEPT !.result = "returned", !.pc = "done"]
  /\ UNCHANGED CallRest

\* the catch block with onRetry called before the test of the last attempt
FnReject_NotifyLast(error) ==
  /\ call.fn = "retryWithBackoff" /\ call.pc = "fn"
  /\ LET caught == [call EXCEPT !.lastError = error, !.errors = Append(@, error)]
         notified == [caught EXCEPT
                        !.onRetryCalls = Append(@, [error |-> error,
                                                    attempt |-> call.attempt + 1])]
     IN call' = IF ~ShouldRetry(error)
                THEN [caught EXCEPT !.result = "threw", !.pc = "done", !.thrown = error]
                ELSE IF call.attempt = call.maxRetries
                THEN [notified EXCEPT !.result = "threw", !.pc = "done",
                                      !.thrown = caught.lastError]
                ELSE [notified EXCEPT !.pc = "sleep", !.sleeps = Append(@, call.delay)]
  /\ UNCHANGED CallRest

\* fn rejects: the error is kept; it is rethrown when shouldRetry is false;
\* after the last attempt the loop is left and lastError is thrown; else
\* onRetry is called and the function sleeps for the delay
FnReject(error) ==
  /\ call.fn = "retryWithBackoff" /\ call.pc = "fn"
  /\ LET caught == [call EXCEPT !.lastError = error, !.errors = Append(@, error)]
     IN call' = IF ~ShouldRetry(error)
                THEN [caught EXCEPT !.result = "threw", !.pc = "done", !.thrown = error]
                ELSE IF call.attempt = call.maxRetries
                THEN [caught EXCEPT !.result = "threw", !.pc = "done",
                                    !.thrown = caught.lastError]
                ELSE [caught EXCEPT
                        !.onRetryCalls = Append(@, [error |-> error,
                                                    attempt |-> call.attempt + 1]),
                        !.pc = "sleep", !.sleeps = Append(@, call.delay)]
  /\ UNCHANGED CallRest

\* the sleep ends: the delay grows by the factor up to maxDelay, the attempt
\* is counted and fn is called again
SleepDone ==
  /\ call.fn = "retryWithBackoff" /\ call.pc = "sleep"
  /\ call' = [call EXCEPT !.delay = Min(call.delay * factor, maxDelay),
                          !.attempt = @ + 1,
                          !.invocations = @ + 1,
                          !.pc = "fn"]
  /\ UNCHANGED CallRest

(***************************************************************************)
(* pollUntil, followed call by call of conditionFn; elapsed is             *)
(* Date.now() - startTime in milliseconds                                  *)
(***************************************************************************)
\* the test of the while loop and, when it passes, the call of conditionFn
\* that follows it without a wait; when it fails pollUntil returns false
LoopTest(c) ==
  IF c.elapsed < c.timeout
  THEN [c EXCEPT !.attempt = @ + 1, !.lastStart = c.elapsed, !.pc = "condition"]
  ELSE [c EXCEPT !.result = "false", !.pc = "done"]

\* pollUntil(conditionFn, {interval, timeout}) is called
PollUntil(options) ==
  /\ call.result \notin {"pending"}
  /\ call' = LoopTest([fn |-> "pollUntil", result |-> "pending", pc |-> "test",
                       interval |-> options.interval, timeout |-> options.timeout,
                       elapsed |-> 0, wake |-> 0, attempt |-> 0, lastStart |-> 0,
                       met |-> FALSE, caught |-> FALSE,
                       response |-> <<>>, context |-> <<>>])
  /\ UNCHANGED CallRest

\* conditionFn resolves after a duration: a truthy value makes pollUntil
\* return true; else it sleeps for the interval or for what remains of the
\* timeout, and goes to the test of the loop at once when nothing remains
ConditionReturn(duration, value) ==
  /\ call.fn = "pollUntil" /\ call.pc = "condition"
  /\ LET at == [call EXCEPT !.elapsed = @ + duration]
         remaining == at.timeout - at.elapsed
         nextCheck == Min(at.interval, remaining)
     IN call' = IF value
                THEN [at EXCEPT !.met = TRUE, !.result = "true", !.pc = "done"]
                ELSE IF nextCheck > 0
                THEN [at EXCEPT !.pc = "sleep", !.wake = at.elapsed + nextCheck]
                ELSE LoopTest(at)
  /\ UNCHANGED CallRest

\* pollUntil without its catch block
ConditionThrow_Propagate(duration) ==
  /\ call.fn = "pollUntil" /\ call.pc = "condition"
  /\ call' = [call EXCEPT !.elapsed = @ + duration, !.caught = TRUE,
                          !.result = "threw", !.pc = "done"]
  /\ UNCHANGED CallRest

\* conditionFn rejects after a duration: the error is logged and pollUntil
\* sleeps for the whole interval
ConditionThrow(duration) ==
  /\ call.fn = "pollUntil" /\ call.pc = "condition"
  /\ call' = [call EXCEPT !.elapsed = @ + duration, !.caught = TRUE,
                          !.pc = "sleep", !.wake = call.elapsed + duration + call.interval]
  /\ UNCHANGED CallRest

\* the sleep ends, and the loop is tested again
WakeUp ==
  /\ call.fn = "pollUntil" /\ call.pc = "sleep"
  /\ call' = LoopTest([call EXCEPT !.elapsed = call.wake])
  /\ UNCHANGED CallRest

(***************************************************************************)
(* GitLabScraper: one call of scrapeHandbook on a new scraper. URLs are    *)
(* numbered; the pages kept in data and their periodic save change neither *)
(* visited nor queue                                                       *)
(***************************************************************************)
\* config.gitlab.handbookUrl and config.gitlab.directionUrl
StartUrls == <<1, 2>>

\* extractLinks of the page of a URL, anchors and query strings removed, in
\* a fixed order: the page itself, the previous page, the home page and the
\* next two pages
Links(url) ==
  LET found == {url, url - 1, 1, url + 1, url + 2} \cap (1..WebSize)
  IN [i \in 1..Cardinality(found) |->
        CHOOSE l \in found : Cardinality({k \in found : k < l}) = i - 1]

InQueue(queue) == {queue[i] : i \in 1..Len(queue)}

CrawlRest == <<store, cache, cacheStats, now, proc, nextReq, appendLog, completed,
               call, disk, server, feedback, conv>>

\* scrapeHandbook is called: the start URLs are pushed onto the queue
ScrapeHandbook ==
  /\ crawl.pc = "new"
  /\ crawl' = [crawl EXCEPT !.queue = crawl.queue \o StartUrls, !.pc = "loop"]
  /\ UNCHANGED CrawlRest

\* one test of the while loop: the crawl ends when the queue is empty or
\* visited has reached maxPages; else the first URL is shifted off the queue
\* and scrapePage returns at once for a visited URL or marks it visited and
\* waits for fetchPage
LoopStep ==
  /\ crawl.pc = "loop"
  /\ crawl' =
       IF Len(crawl.queue) > 0 /\ Cardinality(crawl.visited) < maxPages
       THEN LET url == Head(crawl.queue)
            IN IF url \in crawl.visited \/ Cardinality(crawl.visited) >= maxPages
               THEN [crawl EXCEPT !.queue = Tail(@)]
               ELSE [crawl EXCEPT !.queue = Tail(@), !.url = url,
                                  !.visited = @ \cup {url},
                                  !.fetches = @ + 1,
                                  !.refetched = @ \/ url \in crawl.fetched,
                                  !.fetched = @ \cup {url},
                                  !.pc = "fetching"]
       ELSE [crawl EXCEPT !.pc = "done"]
  /\ UNCHANGED CrawlRest

\* fetchPage catches the error of the request and returns null: scrapePage
\* returns
FetchFail ==
  /\ crawl.pc = "fetching"
  /\ crawl' = [crawl EXCEPT !.pc = "loop"]
  /\ UNCHANGED CrawlRest

\* scrapePage queueing every link that is not visited
FetchReturn_QueueAgain ==
  /\ crawl.pc = "fetching"
  /\ crawl' = [crawl EXCEPT
                 !.queue = @ \o SelectSeq(Links(crawl.url),
                                          LAMBDA link : link \notin crawl.visited),
                 !.pc = "loop"]
  /\ UNCHANGED CrawlRest

\* fetchPage returns the page: every link that is neither visited nor in
\* the queue is pushed onto the queue
FetchReturn ==
  /\ crawl.pc = "fetching"
  /\ crawl' = [crawl EXCEPT
                 !.queue = @ \o SelectSeq(Links(crawl.url),
                                  LAMBDA link : /\ link \notin crawl.visited
                                                /\ link \notin InQueue(crawl.queue)),
                 !.pc = "loop"]
  /\ UNCHANGED CrawlRest

(***************************************************************************)
(* Specifications                                                          *)
(***************************************************************************)
\* The pipeline: concurrent queries with every input, clears, time.
\* Expansion is requested only on the first task.
Next ==
  \/ \E p \in Slots, q \in RawQueries, s \in SessionIds \cup {NoSession}, e \in BOOLEAN :
        nextReq <= MaxReq /\ (e => p = "p1") /\ Start(p, q, s, e)
  \/ \E p \in Slots, lines \in RewriteOutputs : ExpandReturn(p, lines)
  \/ \E p \in Slots : ExpandFail(p)
  \/ \E p \in Slots, results \in SearchResults : SearchReturn(p, results)
  \/ \E p \in Slots : SearchFail(p)
  \/ \E p \in Slots : Resume(p)
  \/ \E p \in Slots, a \in Answers : GenerateReturn(p, a)
  \/ \E p \in Slots : GenerateFail(p)
  \/ \E s \in SessionIds : Clear(s)
  \/ Tick
  \/ CacheSweep

Spec == Init /\ [][Next]_vars

\* Concurrent queries on one session, with clears.
SessQuery == <<"h","i","r","e">>
SessResults == <<PHire, PLow, PPay>>

NextSess ==
  \/ \E p \in Slots : nextReq <= MaxReqSess /\ Start(p, SessQuery, "s1", FALSE)
  \/ \E p \in Slots : SearchReturn(p, SessResults)
  \/ \E p \in Slots : SearchFail(p)
  \/ \E p \in Slots : Resume(p)
  \/ \E p \in Slots, a \in Answers : GenerateReturn(p, a)
  \/ \E p \in Slots : GenerateFail(p)
  \/ Clear("s1")

SpecSess == Init /\ [][NextSess]_vars

\* The conversation memory under every operation that reaches it:
\* direct appends, clears and queries.
NextMem ==
  \/ \E s \in SessionIds \cup {NoSession}, role \in {"user"} : DirectAppend(s, role)
  \/ \E s \in SessionIds : Clear(s)
  \/ \E s \in SessionIds \cup {NoSession} :
        nextReq <= MaxReqMem /\ Start("p1", SessQuery, s, FALSE)
  \/ SearchReturn("p1", SessResults)
  \/ Resume("p1")
  \/ \E a \in Answers : GenerateReturn("p1", a)
  \/ GenerateFail("p1")

SpecMem == Init /\ [][NextMem]_vars

\* One caller that may stop waiting for its pending query.
NextAbandon ==
  \/ \E q \in RawQueries, s \in {"s1", NoSession}, e \in BOOLEAN :
        nextReq <= MaxReqAbandon /\ Start("p1", q, s, e)
  \/ \E lines \in RewriteOutputs : ExpandReturn("p1", lines)
  \/ ExpandFail("p1")
  \/ \E results \in SearchResults : SearchReturn("p1", results)
  \/ SearchFail("p1")
  \/ Resume("p1")
  \/ \E a \in Answers : GenerateReturn("p1", a)
  \/ GenerateFail("p1")
  \/ Abandon("p1")

SpecAbandon == Init /\ [][NextAbandon]_vars

\* One task at a time through the whole pipeline, with every shape of
\* rewriter output and of search result.
NextPipe ==
  \/ \E q \in PipeQueries, s \in {"s1", NoSession}, e \in BOOLEAN :
        nextReq <= MaxReqPipe /\ Start("p1", q, s, e)
  \/ \E lines \in PipeRewrites : ExpandReturn("p1", lines)
  \/ ExpandFail("p1")
  \/ \E results \in PipeResults : SearchReturn("p1", results)
  \/ SearchFail("p1")
  \/ Resume("p1")
  \/ \E a \in Answers : GenerateReturn("p1", a)
  \/ GenerateFail("p1")
  \/ Tick

SpecPipe == Init /\ [][NextPipe]_vars

\* One task at a time against the cache while time passes in steps of half
\* the TTL and of one second more: entries are read before, at and after expiry.
CacheQueries == RawQueries \cup {SessQuery}
CacheResults == {SessResults, <<PLow>>, <<>>}
CacheWaits == {StdTTL \div 2, StdTTL \div 2 + 1}

NextCache ==
  \/ \E q \in CacheQueries : nextReq <= MaxReqCache /\ Start("p1", q, "s1", FALSE)
  \/ \E results \in CacheResults : SearchReturn("p1", results)
  \/ SearchFail("p1")
  \/ Resume("p1")
  \/ \E a \in Answers : GenerateReturn("p1", a)
  \/ GenerateFail("p1")
  \/ \E d \in CacheWaits : Elapse(d)

SpecCache == Init /\ [][NextCache]_vars

\* One task at a time on one session, with clears at every point of a query.
NextClear ==
  \/ nextReq <= MaxReqClear /\ Start("p1", SessQuery, "s1", FALSE)
  \/ SearchReturn("p1", SessResults)
  \/ SearchFail("p1")
  \/ Resume("p1")
  \/ \E a \in Answers : GenerateReturn("p1", a)
  \/ GenerateFail("p1")
  \/ ClearRecorded("s1")

SpecClear == Init /\ [][NextClear]_vars

\* The bodies posted to /query: no field at all; an empty query; a query of
\* whitespace; a query of one character more than the maximum; a short query
\* padded with whitespace to one character more than the maximum; well-formed
\* queries with and without session and expansion; an empty session id.
QueryBodies ==
  { Body(FALSE, <<>>, FALSE, <<>>, "absent"),
    Body(TRUE, <<>>, FALSE, <<>>, "absent"),
    Body(TRUE, <<" "," ">>, TRUE, SessionText, "absent"),
    Body(TRUE, Letters(QueryMaxLen + 1), TRUE, SessionText, "absent"),
    Body(TRUE, PadTo(SessQuery, QueryMaxLen + 1), TRUE, SessionText, "absent"),
    Body(TRUE, <<"H","i","r","e"," "," ","m","e">>, TRUE, SessionText, "true"),
    Body(TRUE, SessQuery, TRUE, SessionText, "false"),
    Body(TRUE, SessQuery, FALSE, <<>>, "absent"),
    Body(TRUE, SessQuery, TRUE, <<>>, "absent") }

\* The chat API of one process until it exits: requests to /query with every
\* shape of body, one at a time, clears, statistics, a termination signal.
NextApi ==
  \/ \E body \in QueryBodies :
        server # "exited" /\ nextReq <= MaxReqApi /\ PostQuery("p1", body)
  \/ \E lines \in RewriteOutputs : server # "exited" /\ ExpandReturn("p1", lines)
  \/ server # "exited" /\ ExpandFail("p1")
  \/ \E results \in CacheResults : server # "exited" /\ SearchReturn("p1", results)
  \/ server # "exited" /\ SearchFail("p1")
  \/ server # "exited" /\ Resume("p1")
  \/ \E a \in Answers : server # "exited" /\ GenerateReturn("p1", a)
  \/ server # "exited" /\ GenerateFail("p1")
  \/ server # "exited" /\ Clear("s1")
  \/ server # "exited" /\ StatsCall
  \/ \E outcome \in VectorStatsOutcomes : server # "exited" /\ StatsReturn(outcome)
  \/ Signal
  \/ Exit

SpecApi == Init /\ [][NextApi]_vars

\* assessConfidence applied to every answer and context of the sets above.
NextConf ==
  \/ \E response \in ConfResponses, context \in ConfContexts : AssessCall(response, context)
  \/ AssessReturn

SpecConf == Init /\ [][NextConf]_vars


(***************************************************************************)
(* Properties                                                              *)
(***************************************************************************)
\* some stored turn was written by request rid
HasTurnOf(rid) ==
  \E s \in DOMAIN store : \E i \in 1..Len(store[s]) : store[s][i].rid = rid

\* C1: a query that ended in an error (retrieval or generation failed) has
\* appended neither its user turn nor its assistant turn to any session.
C1_FailedQueryStoresNothing ==
  \A p \in Slots : proc[p].pc = "failed" => ~HasTurnOf(proc[p].rid)

\* a query failed in generation on a session that already had a history
C1_Witness ==
  \E p \in Slots : /\ proc[p].pc = "failed"
                   /\ proc[p].error = "generation"
                   /\ Len(Hist(proc[p].sessionId)) > 0

\* C2: every stored history holds at most 10 turns, in every state.
C2_HistoryCapped ==
  \A s \in DOMAIN store : Len(store[s]) <= MaxHistory

\* more than 10 turns were appended to a session and it holds exactly 10
C2_Witness ==
  \E s \in SessionIds : Len(appendLog[s]) > MaxHistory /\ Len(Hist(s)) = MaxHistory

\* C3: the stored history is the last min(n, 10) of the n turns appended
\* since the session was fresh, in append order.
C3_OldestFirstEviction ==
  \A s \in SessionIds : Hist(s) = LastN(appendLog[s], MaxHistory)

\* 11 turns were appended and turns 2..11 are stored
C3_Witness ==
  \E s \in SessionIds : /\ Len(appendLog[s]) = MaxHistory + 1
                        /\ Hist(s) = SubSeq(appendLog[s], 2, MaxHistory + 1)
                        /\ appendLog[s][1] # appendLog[s][2]

\* task p calls vectorStore.search in this step
InvokesSearch(p) == proc'[p].pc = "search" /\ proc[p].pc # "search"

\* task p looks its next phrasing up in the cache in this step
LooksUp(p) ==
  \/ proc[p].pc \in Finished /\ proc'[p].pc \in {"search", "resume"}
  \/ proc[p].pc = "expand" /\ proc'[p].pc \in {"search", "resume"}
  \/ /\ proc[p].pc = "resume" /\ proc'[p].pc \in {"search", "resume"}
     /\ proc'[p].qi = proc[p].qi + 1

\* the cache key of the phrasing task p is retrieving after this step
KeyAfter(p) == NormalizeQuery(proc'[p].queries[proc'[p].qi])

\* C4 as stated: two concurrent queries without expansion, with the same
\* normalized text and different sessions, never both have a search in flight.
C4_Original ==
  \A p, r \in Slots :
    (/\ p # r
     /\ proc[p].pc = "search" /\ proc[r].pc = "search"
     /\ ~proc[p].useQueryExpansion /\ ~proc[r].useQueryExpansion
     /\ proc[p].sessionId # proc[r].sessionId)
    => proc[p].normalizedQuery # proc[r].normalizedQuery

\* C4 amended: a lookup that finds a live entry is served from it and a
\* search is invoked only by a lookup that finds none, once per lookup; a
\* query without expansion invokes at most one search.
C4_SearchOnlyOnMiss ==
  [][\A p \in Slots :
       LooksUp(p) =>
         IF CacheLive(cache, KeyAfter(p), now)
         THEN /\ proc'[p].pc = "resume"
              /\ proc'[p].pending = cache[KeyAfter(p)].v
              /\ proc'[p].nSearch = (IF proc[p].pc \in Finished THEN 0 ELSE proc[p].nSearch)
         ELSE /\ InvokesSearch(p)
              /\ proc'[p].nSearch = (IF proc[p].pc \in Finished THEN 0 ELSE proc[p].nSearch) + 1
              /\ ~proc'[p].useQueryExpansion => proc'[p].nSearch = 1]_vars

\* two queries with the same normalized text on different sessions are in
\* flight and each has invoked the search once
C4_Witness ==
  \E p, r \in Slots :
    /\ p # r
    /\ proc[p].pc \in Waiting /\ proc[r].pc \in Waiting
    /\ ~proc[p].useQueryExpansion /\ ~proc[r].useQueryExpansion
    /\ proc[p].sessionId # proc[r].sessionId
    /\ proc[p].normalizedQuery = proc[r].normalizedQuery
    /\ proc[p].nSearch = 1 /\ proc[r].nSearch = 1

\* C5 as stated: a query fails with a retrieval error only if no phrasing
\* was retrieved successfully.
C5_Original ==
  \A p \in Slots :
    (proc[p].pc = "failed" /\ proc[p].error = "retrieval") => proc[p].qi = 1

\* C5 amended: once the search has thrown for any phrasing the query has
\* failed with a retrieval error, and generation is reached only with
\* every phrasing retrieved and no search having thrown.
C5_AnyRetrievalErrorFails ==
  \A p \in Slots :
    /\ proc[p].rejected > 0 => proc[p].pc = "failed" /\ proc[p].error = "retrieval"
    /\ proc[p].pc = "generate" => proc[p].rejected = 0 /\ proc[p].qi = Len(proc[p].queries)

\* the second phrasing of an expanded query failed after the first succeeded
C5_Witness ==
  \E p \in Slots : /\ proc[p].pc = "failed"
                   /\ proc[p].error = "retrieval"
                   /\ proc[p].useQueryExpansion
                   /\ proc[p].qi = 2

\* C6 as stated: a query issued within the TTL after a query with the same
\* normalized text had its retrieval cached never invokes the search.
C6_Original ==
  \A p \in Slots : proc[p].hadPrior => proc[p].nSearch = 0

\* task p enters query() in this step
StartsQuery(p) == proc[p].pc \in Finished /\ proc'[p].rid # proc[p].rid

\* C6 amended: a query without expansion, issued within the TTL after a
\* query without expansion and with the same text up to case and whitespace
\* (any session) had its search result cached, is served the cached list, which
\* is what it reranks, and invokes no search; live entries are never dropped.
C6_CacheKeyedByText ==
  [][/\ \A p \in Slots :
          (StartsQuery(p) /\ ~proc'[p].useQueryExpansion /\ PriorSearch(proc'[p].userQuery))
          => /\ NormalizeQuery(proc'[p].userQuery) \in DOMAIN cache
             /\ proc'[p].pc = "resume"
             /\ proc'[p].pending = cache[NormalizeQuery(proc'[p].userQuery)].v
             /\ proc'[p].nSearch = 0
     /\ \A p \in Slots :
          (proc[p].pc = "resume" /\ proc'[p].pc = "generate" /\ ~proc[p].useQueryExpansion)
          => /\ proc'[p].uniqueResults = UniqueResults(proc[p].pending)
             /\ proc'[p].nSearch = proc[p].nSearch
     /\ \A k \in DOMAIN cache :
          CacheLive(cache, k, now') => k \in DOMAIN cache' /\ cache'[k].t >= cache[k].t]_vars

\* a query was served from the cache, without a search, after a query of
\* another session with a differently written text had searched
C6_Witness ==
  \E p, r \in Slots :
    /\ proc[p].hadPrior /\ ~proc[p].useQueryExpansion
    /\ proc[p].pc = "generate" /\ proc[p].nSearch = 0 /\ proc[p].uniqueResults # <<>>
    /\ proc[r].searchedAt # NoTime /\ proc[r].nSearch = 1
    /\ proc[r].userQuery # proc[p].userQuery
    /\ proc[r].sessionId # proc[p].sessionId

\* C7: on a session, with no clear since, k completed queries leave exactly
\* the last min(2k, 10) of their turns, each query's user turn directly
\* followed by its own assistant turn.
C7_NoLostAppend ==
  \A s \in SessionIds :
    LET h == Hist(s)
    IN /\ Len(h) = Min(2 * completed[s], MaxHistory)
       /\ Len(appendLog[s]) = 2 * completed[s]
       /\ h = LastN(appendLog[s], MaxHistory)
       /\ \A j \in 1..(Len(h) \div 2) :
            /\ h[2 * j - 1].role = "user"
            /\ h[2 * j].role = "assistant"
            /\ h[2 * j - 1].rid = h[2 * j].rid
       /\ \A i, j \in 1..Len(h) : h[i].rid = h[j].rid => (i - j) \in {-1, 0, 1}

\* six queries completed on the session, the last of them while another
\* query that had already read the history was still waiting for its answer
C7_Witness ==
  /\ completed["s1"] = 6
  /\ Len(Hist("s1")) = MaxHistory
  /\ \E p \in Slots : /\ proc[p].pc = "generate"
                      /\ proc[p].sessionId = "s1"
                      /\ proc[p].history # Hist("s1")

\* a step of a query of task p
QueryStep(p) == proc'[p] # proc[p]

\* the session a step of task p works on
SessionOf(p) == IF proc[p].pc \in Finished THEN proc'[p].sessionId ELSE proc[p].sessionId

\* session b is left as it was
SessionUnchanged(b) ==
  /\ GetConversationHistory(store', b) = GetConversationHistory(store, b)
  /\ (b \in DOMAIN store') = (b \in DOMAIN store)

\* C8: a query step, a direct append or a clear on session A leaves every
\* other session as it was, and after clear(A) the history of A reads empty.
C8_SessionsIsolated ==
  [][/\ \A p \in Slots : QueryStep(p) =>
          \A b \in SessionIds \ {SessionOf(p)} : SessionUnchanged(b)
     /\ \A a \in SessionIds \cup {NoSession} :
          (\E role \in {"user", "assistant"} : DirectAppend(a, role)) =>
             \A b \in SessionIds \ {a} : SessionUnchanged(b)
     /\ \A a \in SessionIds :
          Clear(a) => /\ GetConversationHistory(store', a) = <<>>
                      /\ a \notin DOMAIN store'
                      /\ \A b \in SessionIds \ {a} : SessionUnchanged(b)]_vars

\* a session on which a query completed has been cleared and reads empty
\* while the other session keeps its turns
C8_Witness ==
  /\ proc["p1"].pc = "done" /\ proc["p1"].sessionId = "s1"
  /\ "s1" \notin DOMAIN store
  /\ Hist("s1") = <<>>
  /\ Len(Hist("s2")) > 2

\* C9 as stated: no turn of a query whose caller stopped waiting is stored.
C9_Original ==
  \A p \in Slots : proc[p].abandoned => ~HasTurnOf(proc[p].rid)

\* C9 amended: a query whose caller stopped waiting is not cancelled; when
\* its generation succeeds both its turns are appended, when it fails the
\* store is left as it was.
C9_AbandonedStillCommits ==
  [][\A p \in Slots :
       (proc[p].abandoned /\ proc[p].pc = "generate" /\ proc'[p].pc # "generate") =>
          IF proc'[p].pc = "done" /\ proc[p].sessionId # NoSession
          THEN LET h == GetConversationHistory(store', proc[p].sessionId)
               IN /\ Len(h) >= 2
                  /\ h[Len(h) - 1].rid = proc[p].rid /\ h[Len(h) - 1].role = "user"
                  /\ h[Len(h)].rid = proc[p].rid /\ h[Len(h)].role = "assistant"
          ELSE store' = store]_vars

\* the turns of a query whose caller stopped waiting are stored
C9_Witness ==
  \E p \in Slots : /\ proc[p].abandoned
                   /\ proc[p].pc = "done"
                   /\ HasTurnOf(proc[p].rid)

\* C10: no step of a query without a sessionId changes the conversation
\* store, and the history handed to the generator for it is empty.
C10_NoSessionNoMemory ==
  [][\A p \in Slots :
       (QueryStep(p) /\ SessionOf(p) = NoSession) =>
          /\ store' = store
          /\ proc'[p].pc = "generate" =>
               proc'[p].history = <<>> /\ proc'[p].promptHistory = <<>>]_vars

\* a query without a sessionId completed while a session holds turns
C10_Witness ==
  \E p \in Slots : /\ proc[p].pc = "done"
                   /\ proc[p].sessionId = NoSession
                   /\ DOMAIN store # {}
                   /\ NoSession \notin DOMAIN store

\* task p reads the conversation history in this step
ReadsHistory(p) == proc[p].pc = "resume" /\ proc'[p].pc = "generate"

\* C11: the history a query reads holds exactly the last min(2k, 10) turns of
\* the k queries completed on its session since the last clear, as pairs of a
\* user turn and the assistant turn of the same earlier request, and no turn
\* of the reading request itself; reading does not change the store.
C11_ReadBeforeWrite ==
  [][\A p \in Slots :
       (ReadsHistory(p) /\ proc[p].sessionId \in SessionIds) =>
          LET h == proc'[p].history
              k == completed[proc[p].sessionId]
          IN /\ Len(h) = Min(2 * k, MaxHistory)
             /\ \A i \in 1..Len(h) :
                  /\ h[i].rid # proc[p].rid
                  /\ h[i] = appendLog[proc[p].sessionId][2 * k - Len(h) + i]
             /\ \A j \in 1..(Len(h) \div 2) :
                  /\ h[2 * j - 1].role = "user" /\ h[2 * j].role = "assistant"
                  /\ h[2 * j - 1].rid = h[2 * j].rid
             /\ store' = store]_vars

\* the second query on a session has read exactly the two turns of the first
C11_Witness ==
  \E p \in Slots :
    /\ proc[p].pc = "generate" /\ proc[p].sessionId = "s1"
    /\ completed["s1"] = 1
    /\ Len(proc[p].history) = 2
    /\ proc[p].history[1].role = "user" /\ proc[p].history[2].role = "assistant"
    /\ proc[p].history[1].rid = proc[p].history[2].rid
    /\ proc[p].history[1].rid < proc[p].rid

C13_BoundedCalls ==
  \A p \in Slots :
    LET pr == proc[p]
    IN /\ pr.nGenerate <= 1
       /\ pr.nSearch <= pr.qi
       /\ pr.rejected <= 1
       /\ pr.rejected = 1 => pr.pc = "failed"
       /\ pr.pc \in {"failed", "done"} /\ pr.error = "generation" => pr.nGenerate = 1
       /\ ~pr.useQueryExpansion =>
            /\ pr.nRewrite = 0
            /\ pr.nSearch <= 1
            /\ pr.pc \in Waiting => pr.queries = <<pr.normalizedQuery>>
       /\ (pr.useQueryExpansion /\ pr.pc # "idle") =>
            /\ pr.nRewrite = 1
            /\ pr.nSearch <= MaxRewrites
            /\ pr.pc \in {"search", "resume", "generate"} =>
                 Len(pr.queries) >= 1 /\ Len(pr.queries) <= MaxRewrites

\* a query with expansion reached the generator after three searches
C13_Witness ==
  \E p \in Slots : /\ proc[p].useQueryExpansion
                   /\ proc[p].pc = "generate"
                   /\ proc[p].nSearch = MaxRewrites
                   /\ proc[p].nRewrite = 1 /\ proc[p].nGenerate = 1

\* no line of a rewriter output is usable after its bullet is stripped
NoUsableLine(lines) ==
  \A i \in 1..Len(lines) :
    LET l == StripBullet(lines[i]) IN Len(l) <= MinLineLen \/ Len(l) >= MaxLineLen

\* C14: a query never fails in the rewriting step, and when the rewriter's
\* backend throws or answers without a usable line the query goes on to
\* retrieval with the normalized query as its only phrasing.
C14_RewriteFailureNonFatal ==
  [][\A p \in Slots :
       (proc[p].pc = "expand" /\ proc'[p].pc # "expand") =>
          /\ proc'[p].pc \in {"search", "resume"}
          /\ proc'[p].qi = 1 /\ Len(proc'[p].queries) >= 1
          /\ (\/ ExpandFail(p)
              \/ \E lines \in PipeRewrites : NoUsableLine(lines) /\ ExpandReturn(p, lines))
             => proc'[p].queries = <<proc[p].normalizedQuery>>]_vars

\* a query whose rewriting yielded nothing usable completed after one search
C14_Witness ==
  \E p \in Slots : /\ proc[p].useQueryExpansion
                   /\ proc[p].pc = "done"
                   /\ proc[p].qi = 1
                   /\ proc[p].nSearch = 1

\* a passage with a numeric similarity score in [0, threshold)
BelowThreshold(r) ==
  r.score # NullScore /\ r.score >= 0 /\ r.score < SimilarityThreshold

\* no passage of the list has a numeric score below the threshold
NoneBelow(rs) == \A i \in 1..Len(rs) : ~BelowThreshold(rs[i])

\* C15: no passage with a numeric score in [0, 0.7) is ever in the cache, in
\* the results of a query or among the passages handed to the generator, and
\* the filter keeps every passage of a search result that has no score.
C15_Original ==
  [][/\ \A k \in DOMAIN cache' : NoneBelow(cache'[k].v)
     /\ \A p \in Slots : /\ NoneBelow(proc'[p].pending)
                         /\ NoneBelow(proc'[p].allResults)
                         /\ NoneBelow(proc'[p].topResults)
     /\ \A p \in Slots, results \in PipeResults :
          SearchReturn(p, results) =>
            \A i \in 1..Len(results) :
              results[i].score = NullScore =>
                \E j \in 1..Len(proc'[p].pending) : proc'[p].pending[j] = results[i]]_vars

\* the first and the last position of an id in a list of passages
FirstIndex(rs, id) == CHOOSE i \in 1..Len(rs) : rs[i].id = id /\ \A k \in 1..(i - 1) : rs[k].id # id
LastIndex(rs, id) == CHOOSE i \in 1..Len(rs) : rs[i].id = id /\ \A k \in (i + 1)..Len(rs) : rs[k].id # id

\* every retrieved id survives exactly once, in the order of first occurrence
OneInstanceEach(a, u) ==
  /\ \A i \in 1..Len(a) : Cardinality({j \in 1..Len(u) : u[j].id = a[i].id}) = 1
  /\ \A j \in 1..Len(u) : \E i \in 1..Len(a) : a[i].id = u[j].id
  /\ \A j1, j2 \in 1..Len(u) :
       j1 < j2 => FirstIndex(a, u[j1].id) < FirstIndex(a, u[j2].id)

\* C16 as stated: the instance that survives deduplication carries the
\* similarity score of the first occurrence of its id in retrieval order.
C16_Original ==
  \A p \in Slots :
    proc[p].pc = "generate" =>
      LET a == proc[p].allResults
          u == proc[p].uniqueResults
      IN /\ OneInstanceEach(a, u)
         /\ \A j \in 1..Len(u) : u[j].score = a[FirstIndex(a, u[j].id)].score

\* C16 amended: exactly one instance of every retrieved id survives, at the
\* place of the first occurrence of the id, and it is the last occurrence in
\* retrieval order, with that occurrence's similarity score.
C16_LastOccurrenceSurvives ==
  \A p \in Slots :
    proc[p].pc = "generate" =>
      LET a == proc[p].allResults
          u == proc[p].uniqueResults
      IN /\ OneInstanceEach(a, u)
         /\ \A j \in 1..Len(u) : u[j] = a[LastIndex(a, u[j].id)]

\* an id was retrieved with score 0.9 and then with 0.8, and 0.8 survived
C16_Witness ==
  \E p \in Slots :
    /\ proc[p].pc = "generate"
    /\ \E i, k \in 1..Len(proc[p].allResults) :
         /\ i < k
         /\ proc[p].allResults[i] = PHire /\ proc[p].allResults[k] = PHireB
    /\ \E j \in 1..Len(proc[p].uniqueResults) : proc[p].uniqueResults[j] = PHireB
    /\ \A j \in 1..Len(proc[p].uniqueResults) : proc[p].uniqueResults[j] # PHire

\* C17: the passages handed to the generator have pairwise different ids and
\* non-increasing composite scores.
C17_NoDuplicatesDescending ==
  \A p \in Slots :
    proc[p].pc = "generate" =>
      LET t == proc[p].topResults
      IN /\ \A i, j \in 1..Len(t) : t[i].id = t[j].id => i = j
         /\ \A i \in 1..(Len(t) - 1) : t[i].finalScore >= t[i + 1].finalScore

\* an id was retrieved twice and the generator got at least three passages,
\* in another order than they were retrieved in
C17_Witness ==
  \E p \in Slots :
    /\ proc[p].pc = "generate"
    /\ Len(proc[p].allResults) > Len(proc[p].uniqueResults)
    /\ Len(proc[p].topResults) >= 3
    /\ proc[p].topResults[1].finalScore > proc[p].topResults[3].finalScore
    /\ proc[p].topResults[1].id # proc[p].uniqueResults[1].id

\* the composite score of passage r for a query, at time t
CompositeScore(r, query, t) ==
  LET keywords == ExtractKeywords(query)
      distinctKeywords == {keywords[i] : i \in 1..Len(keywords)}
      inTitle == {k \in distinctKeywords : Includes(ToLowerCase(r.title), k)}
  IN (IF r.score = NullScore THEN 0 ELSE r.score)
     + TitleBoost * Cardinality(inTitle)
     + (IF t - r.scrapedAt < RecentSeconds THEN RecencyBoost ELSE 0)

\* C18: every reranked passage carries the composite score: its similarity
\* score (0 if it has none) plus 0.1 for every distinct keyword of the
\* normalized query found in its lowercased title plus 0.05 if it was scraped
\* less than 30 days before; that is never below its similarity score.
C18_CompositeScore ==
  [][\A p \in Slots :
       ReadsHistory(p) =>
         \A i \in 1..Len(proc'[p].topResults) :
           LET r == proc'[p].topResults[i]
           IN /\ r.finalScore = CompositeScore(r, proc[p].normalizedQuery, now)
              /\ r.finalScore >= r.score
              /\ r.finalScore >= 0
              /\ \E j \in 1..Len(proc'[p].uniqueResults) :
                   /\ proc'[p].uniqueResults[j].id = r.id
                   /\ proc'[p].uniqueResults[j].score = r.score]_vars

\* the generator got a recent passage boosted for two keywords, a passage
\* boosted for one keyword that is not recent and a recent one without a score
C18_Witness ==
  \E p \in Slots :
    /\ proc[p].pc = "generate"
    /\ \E i, j, k \in 1..Len(proc[p].topResults) :
         /\ proc[p].topResults[i].finalScore =
              proc[p].topResults[i].score + 2 * TitleBoost + RecencyBoost
         /\ proc[p].topResults[j].finalScore = proc[p].topResults[j].score + TitleBoost
         /\ proc[p].topResults[k].score = NullScore
         /\ proc[p].topResults[k].finalScore = RecencyBoost

\* task p returns its response in this step
Returns(p) == proc[p].pc = "generate" /\ proc'[p].pc = "done"

\* C19: the response lists one source per passage handed to the generator,
\* numbered 1..n in reranked order, and n = chunksRetrieved is the smaller
\* of topK = 5 and the number of distinct ids among the retrieved passages
\* that passed the filter.
C19_SourcesMatchTopK ==
  [][\A p \in Slots :
       Returns(p) =>
         LET t == proc[p].topResults
             r == proc'[p].response
             ids == {proc[p].allResults[i].id : i \in 1..Len(proc[p].allResults)}
         IN /\ Len(r.sources) = Len(t)
            /\ r.chunksRetrieved = Len(t)
            /\ Len(t) = (IF Cardinality(ids) < TopK THEN Cardinality(ids) ELSE TopK)
            /\ \A i \in 1..Len(t) : /\ r.sources[i].id = i
                                     /\ r.sources[i].title = t[i].title
            /\ \A i \in 1..(Len(t) - 1) : t[i].finalScore >= t[i + 1].finalScore]_vars

\* a query with expansion that retrieved the passage ranked first and, in
\* another search, five more passages returned exactly five sources
C19_Witness ==
  \E p \in Slots :
    /\ proc[p].pc = "done" /\ proc[p].useQueryExpansion
    /\ proc[p].nSearch >= 2
    /\ proc[p].response.chunksRetrieved = TopK
    /\ Len(proc[p].response.sources) = TopK
    /\ proc[p].response.sources[1].title = PHire.title
    /\ proc[p].response.sources[TopK].id = TopK

\* the text contains one of the uncertainty phrases, in any letter case
MentionsUncertainty(text) ==
  \E n \in 1..Len(UncertaintyPhrases) :
    \E i \in 0..(Len(text) - Len(UncertaintyPhrases[n])) :
      \A k \in 1..Len(UncertaintyPhrases[n]) :
        LowerChar(text[i + k]) = UncertaintyPhrases[n][k]

\* C20: an answer that contains an uncertainty phrase, in any letter case,
\* is assessed low whatever the context and whatever the later rules (length,
\* missing citation, verification score) would give.
C20_UncertaintyWins ==
  (call.fn = "assessConfidence" /\ call.result # "pending"
     /\ MentionsUncertainty(call.response))
  => call.result = "low"

\* answers with an uncertainty phrase were assessed low although the later
\* rules give high for the one and medium for the other
C20_Witness ==
  /\ call.fn = "assessConfidence" /\ call.result = "low"
  /\ MentionsUncertainty(call.response)
  /\ call.response # ToLowerCase(call.response)
  /\ AssessGrounding(call.response, call.context) = "high"

\* the sentences of an answer that count: more than 20 characters when trimmed
QualifyingSentences(response) ==
  SelectSeq(SplitSentences(response), LAMBDA x : Len(Trim(x)) > 20)

\* the number of qualifying sentences of which more than half of the
\* meaningful words occur in the lowercased context
VerifiedCount(response, context) ==
  Cardinality({i \in 1..Len(QualifyingSentences(response)) :
                 SentenceVerified(QualifyingSentences(response)[i], ToLowerCase(context))})

\* no earlier rule of assessConfidence decides this call: no uncertainty
\* phrase, the answer not longer than 1.5 times the context, a citation
\* marker or a quoted span present
DecidedByVerification ==
  /\ call.fn = "assessConfidence" /\ call.result # "pending"
  /\ ~MentionsUncertainty(call.response)
  /\ 2 * Len(call.response) <= 3 * Len(call.context)
  /\ HasSourceCitation(ToLowerCase(call.response)) \/ HasQuotedSpan(call.response)

\* C21: when no earlier rule fires, the confidence is low iff verified/total
\* < 0.5, medium iff 0.5 <= verified/total < 0.8 and high iff it is >= 0.8,
\* the score counting as 1.0 when no sentence qualifies.
C21_VerificationDecides ==
  DecidedByVerification =>
    LET total == Len(QualifyingSentences(call.response))
        verified == VerifiedCount(call.response, call.context)
    IN IF total = 0 THEN call.result = "high"
       ELSE /\ (call.result = "low") = (2 * verified < total)
            /\ (call.result = "medium") = (2 * verified >= total /\ 5 * verified < 4 * total)
            /\ (call.result = "high") = (5 * verified >= 4 * total)

\* an answer with four of five sentences verified, a score of exactly 0.8,
\* was assessed high
C21_Witness ==
  /\ DecidedByVerification
  /\ Len(QualifyingSentences(call.response)) = 5
  /\ VerifiedCount(call.response, call.context) = 4
  /\ call.result = "high"

\* task p is about to leave the retrieval loop with nothing retrieved: it waits
\* to resume after its last phrasing, and no phrasing yielded a passage
NothingRetrieved(p) ==
  /\ proc[p].pc = "resume"
  /\ proc[p].qi = Len(proc[p].queries)
  /\ proc[p].allResults \o proc[p].pending = <<>>

\* C22: when retrieval yields no passage for any phrasing, the query does not
\* short-circuit: the generator is invoked, exactly once, with no chunks and so
\* with an empty context, and on success the result has an empty sources list
\* and chunksRetrieved = 0.
C22_EmptyRetrievalStillGenerates ==
  [][\A p \in Slots :
       /\ NothingRetrieved(p) /\ proc'[p] # proc[p] =>
            /\ proc'[p].pc = "generate"
            /\ proc'[p].nGenerate = 1
            /\ Len(proc'[p].topResults) = 0
            /\ BuildContext(proc'[p].topResults) = <<>>
       /\ Returns(p) /\ proc[p].allResults = <<>> =>
            /\ proc'[p].nGenerate = 1
            /\ proc'[p].response = [sources |-> <<>>, chunksRetrieved |-> 0]]_vars

\* a query with several phrasings, each searched and none yielding a passage,
\* returned after one generation call with no sources
C22_Witness ==
  /\ proc["p1"].pc = "done"
  /\ proc["p1"].nSearch >= 2
  /\ proc["p1"].nGenerate = 1
  /\ proc["p1"].response = [sources |-> <<>>, chunksRetrieved |-> 0]

\* task p enters query() and looks its text up in the cache
Lookup(p) == proc[p].pc \in Finished /\ proc'[p].pc \in {"search", "resume"}

\* when the entry under key was set: node-cache stores the time it expires
SetTime(key) == cache[key].t - StdTTL

\* C25: an entry set at time t0 is returned by a lookup of its key made less
\* than the TTL after t0; a lookup made more than the TTL after t0 is a miss
\* that removes the entry and invokes the retriever again. What a search
\* returns is stored under the key with the time of the set.
C25_CacheExpiry ==
  [][\A p \in Slots :
       /\ Lookup(p) =>
            LET key == proc'[p].normalizedQuery
            IN /\ key \in DOMAIN cache /\ now - SetTime(key) < StdTTL =>
                    /\ proc'[p].pc = "resume"
                    /\ proc'[p].pending = cache[key].v
                    /\ proc'[p].nSearch = 0
                    /\ cache' = cache
               /\ key \in DOMAIN cache /\ now - SetTime(key) > StdTTL =>
                    /\ proc'[p].pc = "search"
                    /\ proc'[p].nSearch = 1
                    /\ key \notin DOMAIN cache'
       /\ proc[p].pc = "search" /\ proc'[p].pc = "resume" =>
            /\ proc[p].normalizedQuery \in DOMAIN cache'
            /\ cache'[proc[p].normalizedQuery].v = proc'[p].pending
            /\ SetTime(proc[p].normalizedQuery)' = now]_vars

\* the first request searched, cached its result and completed; a later
\* request with the same text, made more than the TTL after that, is searching
\* again and the entry is gone
C25_Witness ==
  /\ proc["p1"].pc = "search"
  /\ proc["p1"].rid > 1
  /\ NormalizeQuery(proc["p1"].userQuery) \notin DOMAIN cache
  /\ \E i \in 1..Len(Hist("s1")) :
        /\ Hist("s1")[i].rid = 1
        /\ Hist("s1")[i].role = "user"
        /\ SameText(Hist("s1")[i].content, proc["p1"].userQuery)
        /\ now > Hist("s1")[i].timestamp + StdTTL

\* C28: a search that throws leaves the cache as it was, with no entry under
\* the key of the phrasing, so that the same text asked again (no other
\* request having cached it meanwhile) invokes the retriever again.
C28_FailureNotCached ==
  [][\A p \in Slots :
       /\ proc[p].pc = "search" /\ proc'[p].pc = "failed" =>
            /\ cache' = cache
            /\ proc[p].queries[proc[p].qi] \notin DOMAIN cache'
       /\ ( /\ Lookup(p)
            /\ proc[p].pc = "failed" /\ proc[p].error = "retrieval"
            /\ SameText(proc[p].userQuery, proc'[p].userQuery) ) =>
            /\ proc'[p].pc = "search"
            /\ proc'[p].nSearch = 1]_vars

\* the second request failed in its search while another text is cached: its
\* own text has no entry
C28_Witness ==
  /\ proc["p1"].pc = "failed" /\ proc["p1"].error = "retrieval"
  /\ proc["p1"].rid = 2
  /\ proc["p1"].rejected = 1
  /\ cache # EmptyMap
  /\ NormalizeQuery(proc["p1"].userQuery) \notin DOMAIN cache

\* C29: a search whose filtered result is empty is cached like any other, and
\* a lookup of that key within the TTL is a hit that returns the empty list
\* without invoking the retriever.
C29_EmptyListCached ==
  [][\A p \in Slots :
       /\ ( /\ proc[p].pc = "search" /\ proc'[p].pc = "resume"
            /\ proc'[p].pending = <<>> ) =>
            /\ proc[p].queries[proc[p].qi] \in DOMAIN cache'
            /\ cache'[proc[p].queries[proc[p].qi]] = [v |-> <<>>, t |-> now + StdTTL]
       /\ Lookup(p) =>
            LET key == proc'[p].normalizedQuery
            IN ( /\ key \in DOMAIN cache
                 /\ cache[key].v = <<>>
                 /\ now - SetTime(key) < StdTTL ) =>
                 /\ proc'[p].pc = "resume"
                 /\ proc'[p].pending = <<>>
                 /\ proc'[p].nSearch = 0]_vars

\* some time after an empty result was cached, a request with the same text
\* was handed the empty list by the cache, without a search
C29_Witness ==
  /\ proc["p1"].pc = "resume"
  /\ proc["p1"].rid = 2
  /\ proc["p1"].hadPrior
  /\ proc["p1"].nSearch = 0
  /\ proc["p1"].pending = <<>>
  /\ now > 0

\* the turn pair of request rid: what the user asked and what was answered
IsTurnPairOf(h, rid) ==
  /\ Len(h) = 2
  /\ h[1].role = "user" /\ h[1].rid = rid
  /\ h[2].role = "assistant" /\ h[2].rid = rid

\* C30 as stated: a query during whose wait on retrieval or generation its
\* session was cleared still completes and stores its turn pair, which is then
\* the whole history, and its generator was given the history that the clear
\* removed.
C30_Original ==
  [][\A p \in Slots :
       Returns(p) /\ proc[p].cleared.during \in {"retrieval", "generation"} =>
         /\ IsTurnPairOf(Hist(proc[p].sessionId)', proc[p].rid)
         /\ proc[p].history = proc[p].cleared.history]_vars

\* C30: a clear of the session while a query waits on retrieval or generation
\* does not cancel the query: when it succeeds, its turn pair is stored and is
\* then the whole history (no other request being active). The generator was
\* given the history read when retrieval finished: the history the clear
\* removed if the clear ran during generation, the empty history left by the
\* clear if it ran during retrieval.
C30_ClearDoesNotCancel ==
  [][\A p \in Slots :
       /\ Returns(p) /\ proc[p].cleared.during \in {"retrieval", "generation"} =>
            /\ IsTurnPairOf(Hist(proc[p].sessionId)', proc[p].rid)
            /\ proc[p].cleared.during = "generation" =>
                  proc[p].history = proc[p].cleared.history
            /\ proc[p].cleared.during = "retrieval" => proc[p].history = <<>>
       /\ proc[p].pc \in Waiting /\ proc[p].cleared # NotCleared /\ proc'[p] # proc[p] =>
            proc'[p].pc \in Waiting \cup {"done", "failed"}]_vars

\* a query whose session held a turn pair was cleared while it waited for the
\* retrieval; it completed with its own pair as the whole history
C30_Witness ==
  /\ proc["p1"].pc = "done"
  /\ proc["p1"].cleared.during = "retrieval"
  /\ Len(proc["p1"].cleared.history) = 2
  /\ IsTurnPairOf(Hist("s1"), proc["p1"].rid)

\* task p takes a new request to /query in this step
TakesRequest(p) ==
  /\ proc'[p] # proc[p]
  /\ proc'[p].rid = nextReq
  /\ proc'[p].posted.given

\* the request was answered 400 by the validator and the pipeline not entered
Rejected(pr) ==
  /\ pr.pc = "invalid"
  /\ HttpResponse(pr).status = 400
  /\ ~HttpResponse(pr).success
  /\ pr.nRewrite = 0 /\ pr.nSearch = 0 /\ pr.nGenerate = 0

\* C23 as stated: a request whose query field is missing, empty or longer
\* than the maximum of the schema is answered 400 with success = false and
\* makes no rewriter, retriever or generator call.
C23_Original ==
  \A p \in Slots :
    ( /\ proc[p].posted.given
      /\ \/ ~proc[p].posted.hasQuery
         \/ proc[p].posted.rawLen = 0
         \/ proc[p].posted.rawLen > QueryMaxLen ) => Rejected(proc[p])

\* C23: a request whose query field is missing or, once the whitespace around
\* it is trimmed, empty or longer than the maximum of the schema, is answered
\* 400 with success = false; query() is not entered: no rewriter, retriever or
\* generator call is made and the cache, its counters and the conversation
\* memory stay as they are.
C23_InvalidQueryRejected ==
  [][\A p \in Slots :
       ( /\ TakesRequest(p)
         /\ \/ ~proc'[p].posted.hasQuery
            \/ proc'[p].posted.trimmedLen = 0
            \/ proc'[p].posted.trimmedLen > QueryMaxLen ) =>
         /\ Rejected(proc'[p])
         /\ UNCHANGED <<store, cache, cacheStats>>]_vars

\* after an earlier request filled the cache, a request whose query was longer
\* than the maximum even when trimmed was rejected
C23_Witness ==
  /\ proc["p1"].pc = "invalid"
  /\ proc["p1"].posted.hasQuery
  /\ proc["p1"].posted.trimmedLen > QueryMaxLen
  /\ cache # EmptyMap

\* C24: whatever made a query request fail, a retrieval error or a generation
\* error, the message in the response is the one generic failure message and
\* never the text of a backend error.
C24_Original ==
  \A p \in Slots :
    proc[p].pc = "failed" =>
      /\ HttpResponse(proc[p]).message = GenerationFailure
      /\ HttpResponse(proc[p]).message \notin BackendErrors

\* the statistics call returns in this step
StatsReturns == call.fn = "getStats" /\ call.result = "pending" /\ call'.result # "pending"

\* C26: the statistics call never fails: whatever the vector index does, it
\* returns success with data in which activeSessions is the number of sessions
\* the conversation store holds and hitRate is 0 when no lookup was made.
C26_StatsNeverFail ==
  [][StatsReturns =>
       /\ call'.result = "success"
       /\ call'.data.activeSessions = Cardinality({sid \in SessionIds : Hist(sid) # <<>>})
       /\ cacheStats.hits + cacheStats.misses = 0 => call'.data.cache.hitRate = 0]_vars

\* the statistics were returned although the index call threw, with the one
\* session held and the one cache hit made so far
C26_Witness ==
  /\ call.fn = "getStats" /\ call.result = "success"
  /\ call.data.vectorStore.error = "describeIndexStats failed"
  /\ call.data.activeSessions = 1
  /\ call.data.cache.hits = 1
  /\ store # EmptyMap

\* C27: when the process has exited on a signal, every conversation the
\* serving RAG service holds is in persistent storage as it is in memory.
C27_Original ==
  server = "exited" =>
    \A sid \in DOMAIN store : sid \in DOMAIN disk /\ disk[sid] = store[sid]

\* C31: with an empty context the confidence of a non-empty answer is never
\* high: it is low when the answer holds an uncertainty phrase and medium
\* otherwise.
C31_EmptyContextNeverHigh ==
  ( /\ call.fn = "assessConfidence" /\ call.result # "pending"
    /\ call.context = <<>>
    /\ call.response # <<>> ) =>
    call.result = IF MentionsUncertainty(call.response) THEN "low" ELSE "medium"

\* an answer that cites a source and has no uncertainty phrase was assessed
\* medium against the empty context
C31_Witness ==
  /\ call.fn = "assessConfidence" /\ call.result = "medium"
  /\ call.context = <<>>
  /\ HasSourceCitation(ToLowerCase(call.response))
  /\ ~MentionsUncertainty(call.response)

\* C32: a session leaves the in-memory conversation store only by an explicit
\* clear of that session; no other step of the service removes a session, so
\* the number of stored sessions grows with every request that gets a fresh id.
C32_OnlyClearRemoves ==
  [][\A s \in DOMAIN store :
        s \notin DOMAIN store' =>
          /\ store' = ClearConversationHistory(store, s)
          /\ UNCHANGED <<proc, nextReq, cache, server>>]_vars

\* all requests have been posted and answered, and the store holds one
\* session for each of them
C32_Witness ==
  /\ nextReq > MaxReqApi
  /\ DOMAIN store = SessionIds
  /\ Cardinality(DOMAIN store) = MaxReqApi
  /\ proc["p1"].posted.given /\ proc["p1"].pc = "done"

\* Feedback submissions sent at any moments of one another
NextFeedback ==
  \E r \in FeedbackIds :
     \/ FeedbackPost(r)
     \/ FeedbackRead(r)
     \/ FeedbackWriteOpen(r)
     \/ FeedbackWriteFail(r)
     \/ FeedbackWriteDone(r)

SpecFeedback == Init /\ [][NextFeedback]_vars

\* the entries of the feedback file
FeedbackOnFile ==
  {feedback.file.entries[i] : i \in 1..Len(feedback.file.entries)}

\* C33: once every feedback submission has completed, the entry of every
\* submission that was answered with success is in the feedback file.
C33_Original ==
  (\A r \in FeedbackIds : feedback.reqs[r].pc \in {"success", "failed"}) =>
    \A r \in FeedbackIds :
       feedback.reqs[r].pc = "success" => r \in FeedbackOnFile

\* The conversation store used by any callers: get, set and delete on the
\* session first in the Map and on a session that is new, the auto-save
\* timer, and the completion of the writes
ConvSessions == {StoredAtStart, StoredAtStart + 1}

SetHistories == {<<1, 2>>, [i \in 1..(maxMessagePerSession + 1) |-> i]}

\* the writes that saveAsync can have started: of a session that was set or
\* evicted, with a history of a starting file or a history stored by set
PossibleWrites ==
  [sessionId : 1..(StoredAtStart + 1),
   history : {<<0>>} \cup {LastN(h, maxMessagePerSession) : h \in SetHistories}]

NextConv ==
  \/ \E s \in ConvSessions : Get(s)
  \/ \E s \in ConvSessions, h \in SetHistories : Set(s, h)
  \/ \E s \in ConvSessions : Delete(s)
  \/ AutoSave
  \/ \E w \in PossibleWrites : WriteDone(w)
  \/ \E w \in PossibleWrites : WriteFail(w)

SpecConv == Init /\ [][NextConv]_vars

\* C34: the Map of the conversation store never holds more than
\* maxCacheSize sessions, and after a set the session holds the last
\* maxMessagePerSession messages of the history that was given; no history
\* in the Map is longer than that.
C34_CacheAndHistoryBounded ==
  /\ Len(conv.cache) <= maxCacheSize
  /\ \A i \in 1..Len(conv.cache) : Len(conv.cache[i].history) <= maxMessagePerSession
  /\ conv.lastOp = "set" =>
       /\ conv.lastSet.sessionId \in Keys(conv.cache)
       /\ Entry(conv.cache, conv.lastSet.sessionId)
            = LastN(conv.lastSet.history, maxMessagePerSession)

\* a history of more than maxMessagePerSession messages was set for a new
\* session while the Map was full, and a session was evicted for it
C34_Witness ==
  /\ conv.lastOp = "set"
  /\ Len(conv.lastSet.history) > maxMessagePerSession
  /\ Len(conv.cache) = maxCacheSize
  /\ conv.eviction.was
  /\ Len(Entry(conv.cache, conv.lastSet.sessionId)) = maxMessagePerSession

\* C35: the session evicted from the Map is the one least recently used,
\* get and set both counting as a use.
C35_Original ==
  conv.eviction.was => conv.eviction.key = conv.eviction.leastRecent

\* C36: a get of a session that was evicted from the Map, and neither set
\* nor deleted since, returns the history the session had at its eviction.
C36_Original ==
  conv.lastGet.evicted => conv.lastGet.history = conv.lastGet.atEviction

\* C37: a get of a session that was deleted, and not set since, returns an
\* empty history.
C37_Original ==
  conv.lastGet.deleted => conv.lastGet.history = <<>>

\* retryWithBackoff called with every maxRetries up to the bound, fn
\* resolving or rejecting with any of the errors at each attempt
NextRetry ==
  \/ \E maxRetries \in 0..MaxRetriesTried : RetryWithBackoff(maxRetries)
  \/ FnResolve
  \/ \E error \in RetryErrors : FnReject(error)
  \/ SleepDone

SpecRetry == Init /\ [][NextRetry]_vars

\* C38: retryWithBackoff calls fn at most maxRetries + 1 times, each wait
\* being followed by exactly one more attempt; it returns at the first
\* success without another call; it rethrows at once, with no onRetry call
\* and no wait for it, the first error shouldRetry refuses; otherwise it
\* throws the error of the last of maxRetries + 1 attempts after exactly
\* maxRetries calls of onRetry.
C38_RetryBounded ==
  call.fn = "retryWithBackoff" =>
    /\ call.invocations <= call.maxRetries + 1
    /\ call.attempt <= call.maxRetries
    /\ call.invocations = call.attempt + 1
    /\ Len(call.onRetryCalls) = Len(call.sleeps)
    /\ Len(call.sleeps) = call.attempt + (IF call.pc = "sleep" THEN 1 ELSE 0)
    /\ call.result = "returned" =>
         /\ Len(call.errors) = call.invocations - 1
         /\ \A i \in 1..Len(call.errors) : ShouldRetry(call.errors[i])
    /\ call.result = "threw" =>
         /\ Len(call.errors) = call.invocations
         /\ call.thrown = call.errors[Len(call.errors)]
         /\ \A i \in 1..(Len(call.errors) - 1) : ShouldRetry(call.errors[i])
         /\ Len(call.onRetryCalls) = call.invocations - 1
         /\ ShouldRetry(call.thrown) =>
              /\ call.invocations = call.maxRetries + 1
              /\ Len(call.onRetryCalls) = call.maxRetries

\* every attempt of a call with maxRetries 3 failed with a retryable error,
\* the last with another error than the first, and the call threw
C38_Witness ==
  /\ call.fn = "retryWithBackoff" /\ call.result = "threw"
  /\ call.maxRetries = 3
  /\ ShouldRetry(call.thrown)
  /\ call.errors[1] # call.thrown

\* pollUntil called with a few intervals and timeouts, conditionFn taking
\* no time, some time or longer than the interval, and resolving truthy,
\* resolving falsy or rejecting at each call
PollOptions ==
  { [interval |-> 5, timeout |-> 12], [interval |-> 3, timeout |-> 12],
    [interval |-> 5, timeout |-> 0] }

Durations == {0, 1, MaxDuration}

NextPoll ==
  \/ \E options \in PollOptions : PollUntil(options)
  \/ \E duration \in Durations, value \in BOOLEAN : ConditionReturn(duration, value)
  \/ \E duration \in Durations : ConditionThrow(duration)
  \/ WakeUp

SpecPoll == Init /\ [][NextPoll]_vars

NextCrawl ==
  \/ ScrapeHandbook
  \/ LoopStep
  \/ FetchFail
  \/ FetchReturn

SpecCrawl == Init /\ [][NextCrawl]_vars

\* C40: no URL is fetched twice and at most maxPages URLs are fetched; the
\* queue never holds a URL twice nor a visited URL; every pass of the loop
\* fetches a new URL, and the crawl has ended only with an empty queue or
\* with maxPages visited URLs.
C40_CrawlBounded ==
  /\ ~crawl.refetched
  /\ crawl.fetches = Cardinality(crawl.visited)
  /\ crawl.fetches <= maxPages
  /\ \A i, j \in 1..Len(crawl.queue) : i # j => crawl.queue[i] # crawl.queue[j]
  /\ InQueue(crawl.queue) \cap crawl.visited = {}
  /\ crawl.pc = "done" =>
       \/ crawl.queue = <<>>
       \/ Cardinality(crawl.visited) = maxPages

\* the crawl ended at maxPages visited URLs with URLs left in the queue
C40_Witness ==
  /\ crawl.pc = "done"
  /\ Cardinality(crawl.visited) = maxPages
  /\ crawl.fetches = maxPages
  /\ crawl.queue # <<>>

=============================================================================
